---------------------------- MODULE Spec2Model ----------------------------
(***************************************************************************)
(* Integration-name normalisation and co-occurrence analysis of the        *)
(* app-listing integration pipeline.                                       *)
(*                                                                         *)
(* Python strings are sequences of one-character strings, so that          *)
(* lower(), strip(), split(), replace(), capitalize() and title() are      *)
(* computed character by character as the interpreter does.  Python        *)
(* floats that are quotients of small integers are kept as exact           *)
(* fractions <<numerator, denominator>>.                                   *)
(***************************************************************************)
EXTENDS Integers, Sequences, FiniteSets, TLC

VARIABLES
    name,            \* the raw candidate handed to a normaliser
    standardized,    \* standardize_integration_name(name)
    restandardized,  \* standardize_integration_name(standardized)
    cleaned,         \* clean_integration_name(name)
    normalized,      \* which normaliser results have been computed
    df,              \* relation table: one row (list of labels) per app
    called,          \* the analysis that has run on df ("none" while loading)
    order,           \* iteration order of the set all_integrations
    freq,            \* result of analyze_integration_frequency
    pairs_df,        \* result of analyze_integration_pairs / analyze_common_pairs
    relationships,   \* result of analyze_integration_relationships
    cell,            \* one app row: the raw text of its integrations column
    details,         \* one app row: its description text (app_details)
    processed_integrations, \* process_integrations: the comma-joined column
    integration_count,      \* process_integrations: the count column
    integrations_list,      \* process_integration_list: the returned list
    extracted_integrations, \* load_integration_data: extractor output
    cleaned_integrations,   \* load_integration_data: final list of the row
    row_done,        \* the row pipeline that has processed the row, if any
    app_data_integrations,  \* load_app_data: extractor output on details
    app_info_integrations,  \* extract_app_info: integration list it builds
    extract_done,    \* which extractors have run on details
    tasks,           \* process_apps: one process_app coroutine per app
    semaphore,       \* process_apps: free permits of the semaphore
    results,         \* process_apps: result rows collected so far
    try_call,        \* one call chain try_urls(session, urls), step by step
    fetch,           \* one call fetch_with_retry(session, url, max_retries)
    collecting,      \* one run of collect_apps
    batch,           \* one batch call over a table with malformed rows
    complexity_run,  \* one call analyze_app_complexity(df)
    clustering       \* one call advanced_integration_clustering(integrations)

normVars == <<name, standardized, restandardized, cleaned, normalized>>
relVars  == <<df, called, order, freq, pairs_df, relationships>>
rowVars  == <<cell, processed_integrations, integration_count,
              integrations_list, cleaned_integrations, row_done>>
descVars == <<details, extracted_integrations>>
extVars  == <<app_data_integrations, app_info_integrations, extract_done>>
scrVars  == <<tasks, semaphore, results>>
lateVars == <<try_call, fetch, collecting, batch, complexity_run, clustering>>
vars     == <<name, standardized, restandardized, cleaned, normalized,
              df, called, order, freq, pairs_df, relationships,
              cell, details, processed_integrations, integration_count,
              integrations_list, extracted_integrations,
              cleaned_integrations, row_done,
              app_data_integrations, app_info_integrations, extract_done,
              tasks, semaphore, results,
              try_call, fetch, collecting, batch, complexity_run, clustering>>

\* the parts of the state a specification leaves untouched start like this
InitRowIdle ==
    /\ cell = <<>>
    /\ processed_integrations = <<>>
    /\ integration_count = 0
    /\ integrations_list = <<>>
    /\ cleaned_integrations = <<>>
    /\ row_done = {}

InitDescIdle ==
    /\ details = <<>>
    /\ extracted_integrations = <<>>

InitExtIdle ==
    /\ app_data_integrations = <<>>
    /\ app_info_integrations = <<>>
    /\ extract_done = {}

InitScrIdle ==
    /\ tasks = <<>>
    /\ semaphore = 0
    /\ results = <<>>

InitTryIdle == try_call = [pc |-> "idle"]
InitFetchIdle == fetch = [pc |-> "idle"]
InitCollectIdle == collecting = [pc |-> "idle"]
InitBatchIdle == batch = [pc |-> "idle"]
InitComplexityIdle == complexity_run = [pc |-> "idle"]
InitClusterIdle == clustering = [pc |-> "idle"]

InitLateIdle ==
    /\ InitTryIdle /\ InitFetchIdle /\ InitCollectIdle
    /\ InitBatchIdle /\ InitComplexityIdle /\ InitClusterIdle

-----------------------------------------------------------------------------
(* Python str primitives *)

LowerCase ==
    <<"a", "b", "c", "d", "e", "f", "g", "h", "i", "j", "k", "l", "m", "n", "o", "p", "q", "r", "s", "t", "u", "v", "w", "x", "y", "z">>
UpperCase ==
    <<"A", "B", "C", "D", "E", "F", "G", "H", "I", "J", "K", "L", "M", "N", "O", "P", "Q", "R", "S", "T", "U", "V", "W", "X", "Y", "Z">>

Whitespace == {" ", "\t", "\n"}

IsUpper(c) == \E i \in 1..Len(UpperCase) : UpperCase[i] = c
IsLower(c) == \E i \in 1..Len(LowerCase) : LowerCase[i] = c
IsCased(c) == IsUpper(c) \/ IsLower(c)

\* str.lower() on one character
LowerChar(c) ==
    IF IsUpper(c) THEN LowerCase[CHOOSE i \in 1..Len(UpperCase) : UpperCase[i] = c]
    ELSE c

\* str.upper() on one character
UpperChar(c) ==
    IF IsLower(c) THEN UpperCase[CHOOSE i \in 1..Len(LowerCase) : LowerCase[i] = c]
    ELSE c

\* str.lower()
Lower(s) == [i \in 1..Len(s) |-> LowerChar(s[i])]

\* str.upper()
Upper(s) == [i \in 1..Len(s) |-> UpperChar(s[i])]

\* str.lstrip()
RECURSIVE LStrip(_)
LStrip(s) ==
    IF s = <<>> \/ s[1] \notin Whitespace THEN s ELSE LStrip(Tail(s))

\* str.rstrip()
RECURSIVE RStrip(_)
RStrip(s) ==
    IF s = <<>> \/ s[Len(s)] \notin Whitespace THEN s
    ELSE RStrip(SubSeq(s, 1, Len(s) - 1))

\* str.strip()
Strip(s) == RStrip(LStrip(s))

\* s[i:].startswith(p)
StartsWithAt(p, s, i) ==
    /\ i + Len(p) - 1 <= Len(s)
    /\ \A k \in 1..Len(p) : s[i + k - 1] = p[k]

\* p in s
Contains(p, s) == \E i \in 1..(Len(s) + 1) : StartsWithAt(p, s, i)

\* s.replace(p, r) for a non-empty p: every non-overlapping occurrence,
\* scanning left to right from position i
RECURSIVE ReplaceFrom(_, _, _, _)
ReplaceFrom(s, p, r, i) ==
    IF i > Len(s) THEN <<>>
    ELSE IF StartsWithAt(p, s, i) THEN r \o ReplaceFrom(s, p, r, i + Len(p))
    ELSE <<s[i]>> \o ReplaceFrom(s, p, r, i + 1)

Replace(s, p, r) == ReplaceFrom(s, p, r, 1)

\* s.split(): the maximal runs of non-whitespace characters, in order
RECURSIVE SplitFrom(_, _, _)
SplitFrom(s, i, word) ==
    IF i > Len(s) THEN (IF word = <<>> THEN <<>> ELSE <<word>>)
    ELSE IF s[i] \in Whitespace
         THEN (IF word = <<>> THEN <<>> ELSE <<word>>) \o SplitFrom(s, i + 1, <<>>)
         ELSE SplitFrom(s, i + 1, Append(word, s[i]))

Split(s) == SplitFrom(s, 1, <<>>)

\* sep.join(words)
RECURSIVE Join(_, _)
Join(sep, words) ==
    IF words = <<>> THEN <<>>
    ELSE IF Len(words) = 1 THEN words[1]
    ELSE words[1] \o sep \o Join(sep, Tail(words))

\* str.capitalize(): first character upper-cased, the rest lower-cased
Capitalize(w) ==
    [i \in 1..Len(w) |-> IF i = 1 THEN UpperChar(w[i]) ELSE LowerChar(w[i])]

\* str.title(): a cased character is upper-cased when it follows an uncased
\* character (or starts the string) and lower-cased otherwise
Title(s) ==
    [i \in 1..Len(s) |->
        IF i = 1 \/ ~IsCased(s[i - 1]) THEN UpperChar(s[i]) ELSE LowerChar(s[i])]

-----------------------------------------------------------------------------
(* standardize_integrations.py: standardize_integration_name *)

\* the dict literal, in insertion order (the order the loop over .items() sees)
name_mappings ==
    << <<<<"f", "b">>, <<"F", "a", "c", "e", "b", "o", "o", "k">>>>,
       <<<<"f", "a", "c", "e", "b", "o", "o", "k">>, <<"F", "a", "c", "e", "b", "o", "o", "k">>>>,
       <<<<"i", "g">>, <<"I", "n", "s", "t", "a", "g", "r", "a", "m">>>>,
       <<<<"i", "n", "s", "t", "a">>, <<"I", "n", "s", "t", "a", "g", "r", "a", "m">>>>,
       <<<<"i", "n", "s", "t", "a", "g", "r", "a", "m">>, <<"I", "n", "s", "t", "a", "g", "r", "a", "m">>>>,
       <<<<"w", "h", "a", "t", "s", "a", "p", "p">>, <<"W", "h", "a", "t", "s", "A", "p", "p">>>>,
       <<<<"w", "a">>, <<"W", "h", "a", "t", "s", "A", "p", "p">>>>,
       <<<<"t", "i", "k", "t", "o", "k">>, <<"T", "i", "k", "T", "o", "k">>>>,
       <<<<"y", "o", "u", "t", "u", "b", "e">>, <<"Y", "o", "u", "T", "u", "b", "e">>>>,
       <<<<"p", "i", "n", "t", "e", "r", "e", "s", "t">>, <<"P", "i", "n", "t", "e", "r", "e", "s", "t">>>>,
       <<<<"p", "a", "y", "p", "a", "l">>, <<"P", "a", "y", "P", "a", "l">>>>,
       <<<<"s", "t", "r", "i", "p", "e">>, <<"S", "t", "r", "i", "p", "e">>>>,
       <<<<"k", "l", "a", "r", "n", "a">>, <<"K", "l", "a", "r", "n", "a">>>>,
       <<<<"s", "h", "o", "p", "i", "f", "y", " ", "c", "h", "e", "c", "k", "o", "u", "t">>, <<"S", "h", "o", "p", "i", "f", "y", " ", "C", "h", "e", "c", "k", "o", "u", "t">>>>,
       <<<<"c", "h", "e", "c", "k", "o", "u", "t">>, <<"S", "h", "o", "p", "i", "f", "y", " ", "C", "h", "e", "c", "k", "o", "u", "t">>>>,
       <<<<"g", "o", "o", "g", "l", "e", " ", "a", "n", "a", "l", "y", "t", "i", "c", "s">>, <<"G", "o", "o", "g", "l", "e", " ", "A", "n", "a", "l", "y", "t", "i", "c", "s">>>>,
       <<<<"g", "a">>, <<"G", "o", "o", "g", "l", "e", " ", "A", "n", "a", "l", "y", "t", "i", "c", "s">>>>,
       <<<<"g", "o", "o", "g", "l", "e", " ", "a", "d", "s">>, <<"G", "o", "o", "g", "l", "e", " ", "A", "d", "s">>>>,
       <<<<"k", "l", "a", "v", "i", "y", "o">>, <<"K", "l", "a", "v", "i", "y", "o">>>>,
       <<<<"m", "a", "i", "l", "c", "h", "i", "m", "p">>, <<"M", "a", "i", "l", "c", "h", "i", "m", "p">>>>,
       <<<<"a", "c", "t", "i", "v", "e", "c", "a", "m", "p", "a", "i", "g", "n">>, <<"A", "c", "t", "i", "v", "e", "C", "a", "m", "p", "a", "i", "g", "n">>>>,
       <<<<"u", "p", "s">>, <<"U", "P", "S">>>>,
       <<<<"u", "s", "p", "s">>, <<"U", "S", "P", "S">>>>,
       <<<<"d", "h", "l">>, <<"D", "H", "L">>>>,
       <<<<"f", "e", "d", "e", "x">>, <<"F", "e", "d", "E", "x">>>>,
       <<<<"a", "m", "a", "z", "o", "n">>, <<"A", "m", "a", "z", "o", "n">>>>,
       <<<<"e", "b", "a", "y">>, <<"e", "B", "a", "y">>>>,
       <<<<"e", "t", "s", "y">>, <<"E", "t", "s", "y">>>>,
       <<<<"w", "a", "l", "m", "a", "r", "t">>, <<"W", "a", "l", "m", "a", "r", "t">>>>,
       <<<<"p", "o", "s">>, <<"S", "h", "o", "p", "i", "f", "y", " ", "P", "O", "S">>>>,
       <<<<"s", "h", "o", "p", "i", "f", "y", " ", "p", "o", "s">>, <<"S", "h", "o", "p", "i", "f", "y", " ", "P", "O", "S">>>>,
       <<<<"f", "l", "o", "w">>, <<"S", "h", "o", "p", "i", "f", "y", " ", "F", "l", "o", "w">>>>,
       <<<<"s", "h", "o", "p", "i", "f", "y", " ", "f", "l", "o", "w">>, <<"S", "h", "o", "p", "i", "f", "y", " ", "F", "l", "o", "w">>>>,
       <<<<"z", "e", "n", "d", "e", "s", "k">>, <<"Z", "e", "n", "d", "e", "s", "k">>>>,
       <<<<"g", "o", "r", "g", "i", "a", "s">>, <<"G", "o", "r", "g", "i", "a", "s">>>>,
       <<<<"i", "n", "t", "e", "r", "c", "o", "m">>, <<"I", "n", "t", "e", "r", "c", "o", "m">>>>,
       <<<<"z", "a", "p", "i", "e", "r">>, <<"Z", "a", "p", "i", "e", "r">>>>,
       <<<<"q", "u", "i", "c", "k", "b", "o", "o", "k", "s">>, <<"Q", "u", "i", "c", "k", "B", "o", "o", "k", "s">>>>,
       <<<<"x", "e", "r", "o">>, <<"X", "e", "r", "o">>>>,
       <<<<"h", "u", "b", "s", "p", "o", "t">>, <<"H", "u", "b", "S", "p", "o", "t">>>>,
       <<<<"s", "a", "l", "e", "s", "f", "o", "r", "c", "e">>, <<"S", "a", "l", "e", "s", "f", "o", "r", "c", "e">>>>,
       <<<<"c", "h", "a", "t", "g", "p", "t">>, <<"C", "h", "a", "t", "G", "P", "T">>>>,
       <<<<"o", "p", "e", "n", "a", "i">>, <<"O", "p", "e", "n", "A", "I">>>>,
       <<<<"g", "p", "t">>, <<"C", "h", "a", "t", "G", "P", "T">>>>,
       <<<<"d", "r", "o", "p", "b", "o", "x">>, <<"D", "r", "o", "p", "b", "o", "x">>>>,
       <<<<"g", "o", "o", "g", "l", "e", " ", "d", "r", "i", "v", "e">>, <<"G", "o", "o", "g", "l", "e", " ", "D", "r", "i", "v", "e">>>>,
       <<<<"g", "i", "t", "h", "u", "b">>, <<"G", "i", "t", "H", "u", "b">>>>,
       <<<<"g", "i", "t", "l", "a", "b">>, <<"G", "i", "t", "L", "a", "b">>>>,
       <<<<"b", "i", "t", "b", "u", "c", "k", "e", "t">>, <<"B", "i", "t", "b", "u", "c", "k", "e", "t">>>>,
       <<<<"c", "u", "s", "t", "o", "m", "e", "r", " ", "a", "c", "c", "o", "u", "n", "t", "s">>, <<"C", "u", "s", "t", "o", "m", "e", "r", " ", "A", "c", "c", "o", "u", "n", "t", "s">>>>,
       <<<<"c", "u", "s", "t", "o", "m", "e", "r", " ", "a", "c", "c", "o", "u", "n", "t">>, <<"C", "u", "s", "t", "o", "m", "e", "r", " ", "A", "c", "c", "o", "u", "n", "t", "s">>>> >>

\* the words the capitalisation loop leaves in lower case
lowercase_words ==
    { <<"a", "n", "d">>, <<"o", "r">>, <<"i", "n">>, <<"o", "n">>, <<"a", "t">>,
      <<"t", "o">>, <<"f", "o", "r">>, <<"w", "i", "t", "h">>, <<"b", "y">> }

\* key in mappings
HasKey(mappings, key) == \E i \in 1..Len(mappings) : mappings[i][1] = key

\* mappings[key]
Lookup(mappings, key) ==
    mappings[CHOOSE i \in 1..Len(mappings) : mappings[i][1] = key][2]

\* for pattern, replacement in name_mappings.items():
\*     if pattern in name: name = name.replace(pattern, replacement)
RECURSIVE partial_matches(_, _)
partial_matches(n, i) ==
    IF i > Len(name_mappings) THEN n
    ELSE LET pattern     == name_mappings[i][1]
             replacement == name_mappings[i][2]
         IN  IF Contains(pattern, n)
             THEN partial_matches(Replace(n, pattern, replacement), i + 1)
             ELSE partial_matches(n, i + 1)

\* the capitalisation loop over name.split()
capitalized_words(words) ==
    [i \in 1..Len(words) |->
        IF words[i] \in lowercase_words THEN words[i] ELSE Capitalize(words[i])]

\* mutation: the candidate is trimmed but not lower-cased
standardize_integration_name_no_lower(raw) ==
    IF raw = <<>> THEN raw
    ELSE LET n == Strip(raw)
         IN  IF HasKey(name_mappings, n) THEN Lookup(name_mappings, n)
             ELSE Join(<<" ">>, capitalized_words(Split(partial_matches(n, 1))))

standardize_integration_name(raw) ==
    IF raw = <<>> THEN raw
    ELSE LET n == Strip(Lower(raw))
         IN  IF HasKey(name_mappings, n) THEN Lookup(name_mappings, n)
             ELSE Join(<<" ">>, capitalized_words(Split(partial_matches(n, 1))))

-----------------------------------------------------------------------------
(* analyze_integrations.py: clean_integration_name *)

clean_name_mappings ==
    << <<<<"f", "a", "c", "e", "b", "o", "o", "k">>, <<"F", "a", "c", "e", "b", "o", "o", "k">>>>,
       <<<<"f", "b">>, <<"F", "a", "c", "e", "b", "o", "o", "k">>>>,
       <<<<"f", "a", "c", "e", " ", "b", "o", "o", "k">>, <<"F", "a", "c", "e", "b", "o", "o", "k">>>>,
       <<<<"i", "n", "s", "t", "a", "g", "r", "a", "m">>, <<"I", "n", "s", "t", "a", "g", "r", "a", "m">>>>,
       <<<<"i", "g">>, <<"I", "n", "s", "t", "a", "g", "r", "a", "m">>>>,
       <<<<"g", "o", "o", "g", "l", "e", " ", "a", "n", "a", "l", "y", "t", "i", "c", "s">>, <<"G", "o", "o", "g", "l", "e", " ", "A", "n", "a", "l", "y", "t", "i", "c", "s">>>>,
       <<<<"g", "a">>, <<"G", "o", "o", "g", "l", "e", " ", "A", "n", "a", "l", "y", "t", "i", "c", "s">>>>,
       <<<<"s", "h", "o", "p", "i", "f", "y", " ", "p", "o", "s">>, <<"S", "h", "o", "p", "i", "f", "y", " ", "P", "O", "S">>>>,
       <<<<"p", "o", "s">>, <<"S", "h", "o", "p", "i", "f", "y", " ", "P", "O", "S">>>>,
       <<<<"s", "h", "o", "p", "i", "f", "y", " ", "c", "h", "e", "c", "k", "o", "u", "t">>, <<"S", "h", "o", "p", "i", "f", "y", " ", "C", "h", "e", "c", "k", "o", "u", "t">>>>,
       <<<<"c", "h", "e", "c", "k", "o", "u", "t">>, <<"S", "h", "o", "p", "i", "f", "y", " ", "C", "h", "e", "c", "k", "o", "u", "t">>>>,
       <<<<"w", "h", "a", "t", "s", "a", "p", "p">>, <<"W", "h", "a", "t", "s", "A", "p", "p">>>>,
       <<<<"w", "a">>, <<"W", "h", "a", "t", "s", "A", "p", "p">>>>,
       <<<<"t", "i", "k", "t", "o", "k">>, <<"T", "i", "k", "T", "o", "k">>>>,
       <<<<"k", "l", "a", "v", "i", "y", "o">>, <<"K", "l", "a", "v", "i", "y", "o">>>>,
       <<<<"m", "a", "i", "l", "c", "h", "i", "m", "p">>, <<"M", "a", "i", "l", "c", "h", "i", "m", "p">>>>,
       <<<<"s", "h", "o", "p", "i", "f", "y", " ", "f", "l", "o", "w">>, <<"S", "h", "o", "p", "i", "f", "y", " ", "F", "l", "o", "w">>>>,
       <<<<"f", "l", "o", "w">>, <<"S", "h", "o", "p", "i", "f", "y", " ", "F", "l", "o", "w">>>>,
       <<<<"c", "u", "s", "t", "o", "m", "e", "r", " ", "a", "c", "c", "o", "u", "n", "t", "s">>, <<"C", "u", "s", "t", "o", "m", "e", "r", " ", "A", "c", "c", "o", "u", "n", "t", "s">>>>,
       <<<<"j", "u", "d", "g", "e", ".", "m", "e">>, <<"J", "u", "d", "g", "e", ".", "m", "e">>>>,
       <<<<"j", "u", "d", "g", "e", "m", "e">>, <<"J", "u", "d", "g", "e", ".", "m", "e">>>>,
       <<<<"z", "a", "p", "i", "e", "r">>, <<"Z", "a", "p", "i", "e", "r">>>>,
       <<<<"s", "l", "a", "c", "k">>, <<"S", "l", "a", "c", "k">>>>,
       <<<<"z", "e", "n", "d", "e", "s", "k">>, <<"Z", "e", "n", "d", "e", "s", "k">>>>,
       <<<<"h", "u", "b", "s", "p", "o", "t">>, <<"H", "u", "b", "S", "p", "o", "t">>>>,
       <<<<"q", "u", "i", "c", "k", "b", "o", "o", "k", "s">>, <<"Q", "u", "i", "c", "k", "B", "o", "o", "k", "s">>>>,
       <<<<"x", "e", "r", "o">>, <<"X", "e", "r", "o">>>>,
       <<<<"p", "a", "y", "p", "a", "l">>, <<"P", "a", "y", "P", "a", "l">>>>,
       <<<<"s", "t", "r", "i", "p", "e">>, <<"S", "t", "r", "i", "p", "e">>>> >>

generic_terms ==
    << <<"a", "l", "l", " ", "t", "h", "e", "m", "e", " ", "s", "u", "p", "p", "o", "r", "t">>,
       <<"p", "r", "o", "d", "u", "c", "t", "s">>,
       <<"c", "a", "r", "t">>,
       <<"a", "p", "i">>,
       <<"m", "o", "b", "i", "l", "e">>,
       <<"d", "e", "s", "k", "t", "o", "p">>,
       <<"t", "r", "a", "n", "s", "l", "a", "t", "i", "o", "n", " ", "a", "p", "p", "s">>,
       <<"r", "e", "v", "i", "e", "w", " ", "w", "i", "d", "g", "e", "t", "s">>,
       <<"c", "u", "r", "r", "e", "n", "c", "y", " ", "c", "o", "n", "v", "e", "r", "t", "o", "r", "s">>,
       <<"l", "a", "n", "d", "i", "n", "g", " ", "p", "a", "g", "e", " ", "b", "u", "i", "l", "d", "e", "r">>,
       <<"a", "n", "d", " ", "m", "a", "n", "y", " ", "m", "o", "r", "e">>,
       <<"2", "0", "4", "8", " ", "v", "a", "r", "i", "a", "n", "t", "s">>,
       <<"r", "e", "s", "t", " ", "a", "p", "i">>,
       <<"w", "e", "b", "h", "o", "o", "k", "s">>,
       <<"y", "o", "u", "r", " ", "s", "t", "o", "r", "e">>,
       <<"c", "u", "s", "t", "o", "m", " ", "i", "n", "t", "e", "g", "r", "a", "t", "i", "o", "n", "s">> >>

\* for pattern, replacement in name_mappings.items():
\*     if name == pattern: return replacement
\* return name.title()
RECURSIVE apply_name_mappings(_, _)
apply_name_mappings(n, i) ==
    IF i > Len(clean_name_mappings) THEN Title(n)
    ELSE IF n = clean_name_mappings[i][1] THEN clean_name_mappings[i][2]
    ELSE apply_name_mappings(n, i + 1)

clean_integration_name(raw) ==
    IF raw = <<>> THEN <<>>
    ELSE LET n == Strip(Lower(raw))
         IN  IF \E i \in 1..Len(generic_terms) : generic_terms[i] = n THEN <<>>
             ELSE apply_name_mappings(n, 1)

-----------------------------------------------------------------------------
(* The relation table read by the analysers.  A row is the list obtained    *)
(* by splitting an app's processed_integrations cell on ","; an app with    *)
(* an empty or missing cell is the empty row.                               *)

MaxApps == 4

\* canonical labels, listed in Python's str order (the order sorted() uses)
SortedLabels == <<"Facebook", "Klaviyo", "Stripe">>

Labels == {SortedLabels[i] : i \in 1..Len(SortedLabels)}

Rank(x) == CHOOSE i \in 1..Len(SortedLabels) : SortedLabels[i] = x

\* a < b on str
StrLess(a, b) == Rank(a) < Rank(b)

Range(s) == {s[i] : i \in 1..Len(s)}

\* number of positions of list s that hold x
Occurrences(s, x) == Cardinality({i \in 1..Len(s) : s[i] = x})

\* sorted(items) for a collection without repeated elements
RECURSIVE SortedSet(_)
SortedSet(S) ==
    IF S = {} THEN <<>>
    ELSE LET m == CHOOSE x \in S : \A y \in S : x = y \/ StrLess(x, y)
         IN  <<m>> \o SortedSet(S \ {m})

\* sorted(lst) for a list; equal elements stay adjacent
RECURSIVE sorted(_)
sorted(lst) ==
    IF lst = <<>> THEN <<>>
    ELSE LET m    == CHOOSE x \in Range(lst) : \A y \in Range(lst) : x = y \/ StrLess(x, y)
             rest == CHOOSE i \in 1..Len(lst) : lst[i] = m
         IN  <<m>> \o sorted(SubSeq(lst, 1, rest - 1) \o SubSeq(lst, rest + 1, Len(lst)))

\* itertools.combinations(lst, 2): the pairs (lst[i], lst[j]), i < j, in
\* lexicographic order of (i, j)
RECURSIVE combinations2(_)
combinations2(lst) ==
    IF Len(lst) < 2 THEN <<>>
    ELSE [j \in 1..(Len(lst) - 1) |-> <<lst[1], lst[j + 1]>>] \o combinations2(Tail(lst))

\* ','.join(sorted(processed_integrations)) split again on ',':
\* the rows process_integrations writes (process_integrations.py)
ProcessedRows == {SortedSet(S) : S \in SUBSET Labels}

\* the orders in which iterating a set of str may yield its elements
IterationOrders(S) ==
    {s \in [1..Cardinality(S) -> S] : \A i, j \in 1..Cardinality(S) : i # j => s[i] # s[j]}

RECURSIVE Flatten(_)
Flatten(rows) ==
    IF rows = <<>> THEN <<>> ELSE rows[1] \o Flatten(Tail(rows))

-----------------------------------------------------------------------------
(* analyze_integration_patterns.py: frequency and pair statistics *)

\* pd.Series(values).value_counts(): each distinct value with the number of
\* times it occurs (the ordering of the Series by count is not represented)
value_counts(values) ==
    [x \in Range(values) |-> Occurrences(values, x)]

\* mutation: only the first label of each cell is collected
analyze_integration_frequency_first_label(d) ==
    value_counts(Flatten([i \in 1..Len(d) |->
        IF d[i] = <<>> THEN <<>> ELSE <<d[i][1]>>]))

\* all_integrations.extend(integrations.split(',')) over the non-empty cells
analyze_integration_frequency(d) == value_counts(Flatten(d))

get_integration_pairs(integrations) ==
    IF integrations = <<>> THEN <<>> ELSE combinations2(sorted(integrations))

\* pair_counts[pair] += 1 for every pair of every row
pair_counts(d) ==
    LET all_pairs == Flatten([i \in 1..Len(d) |-> get_integration_pairs(d[i])])
    IN  [p \in Range(all_pairs) |-> Occurrences(all_pairs, p)]

\* the rows of the DataFrame built from a pair_counts dict
pair_rows(counts) ==
    {[integration1 |-> p[1], integration2 |-> p[2], count |-> counts[p]] :
        p \in DOMAIN counts}

\* pd.DataFrame([]) has no columns, so sort_values('count') raises KeyError
\* when no pair was counted
analyze_integration_pairs(d) ==
    LET rows == pair_rows(pair_counts(d))
    IN  IF rows = {} THEN [raised |-> "KeyError", rows |-> {}]
        ELSE [raised |-> "none", rows |-> rows]

-----------------------------------------------------------------------------
(* pattern_analysis.py: analyze_common_pairs *)

min_occurrences == 5

common_pair_counts(d) ==
    LET all_pairs == Flatten([i \in 1..Len(d) |-> combinations2(sorted(d[i]))])
    IN  [p \in Range(all_pairs) |-> Occurrences(all_pairs, p)]

\* only the pairs counted at least min_occurrences times become rows;
\* the sort is skipped when the frame is empty
analyze_common_pairs(d) ==
    [raised |-> "none",
     rows   |-> {r \in pair_rows(common_pair_counts(d)) : r.count >= min_occurrences}]

-----------------------------------------------------------------------------
(* analyze_integration_patterns.py: analyze_integration_relationships *)

\* all_integrations.update(integrations.split(',')) over the non-empty cells
all_integrations(d) == UNION {Range(d[i]) : i \in 1..Len(d)}

\* the inner loop over the rows for one (int1, int2): int2_total is
\* incremented in the elif branch, i.e. only for rows without int1
cooccurrence(d, int1, int2) ==
    [together   |-> Cardinality({i \in 1..Len(d) :
                        int1 \in Range(d[i]) /\ int2 \in Range(d[i])}),
     int1_total |-> Cardinality({i \in 1..Len(d) : int1 \in Range(d[i])}),
     int2_total |-> Cardinality({i \in 1..Len(d) :
                        int1 \notin Range(d[i]) /\ int2 \in Range(d[i])})]

\* expected_together = (int1_total / total_apps) * (int2_total / total_apps) * total_apps
\* as the fraction <<numerator, denominator>>; total_apps = len(df)
expected_together(d, int1, int2) ==
    LET c == cooccurrence(d, int1, int2)
    IN  <<c.int1_total * c.int2_total * Len(d), Len(d) * Len(d)>>

\* together / expected_together raises ZeroDivisionError when the float
\* expected_together is 0.0
lift_raises(d, int1, int2) ==
    /\ cooccurrence(d, int1, int2).together > 0
    /\ expected_together(d, int1, int2)[1] = 0

\* lift = together / expected_together, as a fraction
lift(d, int1, int2) ==
    LET e == expected_together(d, int1, int2)
    IN  <<cooccurrence(d, int1, int2).together * e[2], e[1]>>

\* fraction comparisons (denominators are positive where these are used)
FracGreater(f, n, m) == f[1] * m > n * f[2]   \* f > n/m
FracLess(f, n, m)    == f[1] * m < n * f[2]   \* f < n/m

\* the loop over combinations(all_integrations, 2), from pair number k on;
\* acc carries the two lists built so far
RECURSIVE pair_loop(_, _, _, _)
pair_loop(d, pairs, k, acc) ==
    IF k > Len(pairs) THEN acc
    ELSE LET int1 == pairs[k][1]
             int2 == pairs[k][2]
         IN  IF cooccurrence(d, int1, int2).together > 0
             THEN IF lift_raises(d, int1, int2)
                  THEN [acc EXCEPT !.raised = "ZeroDivisionError"]
                  ELSE LET l == lift(d, int1, int2)
                       IN  IF FracGreater(l, 2, 1)
                           THEN pair_loop(d, pairs, k + 1,
                                    [acc EXCEPT !.complementary = Append(@, <<int1, int2, l>>)])
                           ELSE IF FracLess(l, 1, 2)
                           THEN pair_loop(d, pairs, k + 1,
                                    [acc EXCEPT !.exclusive = Append(@, <<int1, int2, l>>)])
                           ELSE pair_loop(d, pairs, k + 1, acc)
             ELSE pair_loop(d, pairs, k + 1, acc)

\* standalone_count / total_count of one integration, as a fraction
standalone_ratio(d, integration) ==
    <<Cardinality({i \in 1..Len(d) : integration \in Range(d[i]) /\ Len(d[i]) = 1}),
      Cardinality({i \in 1..Len(d) : integration \in Range(d[i])})>>

\* the loop over all_integrations, from element number k on
RECURSIVE standalone_loop(_, _, _, _)
standalone_loop(d, ord, k, acc) ==
    IF k > Len(ord) THEN acc
    ELSE LET r == standalone_ratio(d, ord[k])
         IN  IF r[2] > 0
             THEN IF FracGreater(r, 1, 2)
                  THEN standalone_loop(d, ord, k + 1,
                           [acc EXCEPT !.primary = Append(@, <<ord[k], r>>)])
                  ELSE IF FracLess(r, 1, 10)
                  THEN standalone_loop(d, ord, k + 1,
                           [acc EXCEPT !.dependent = Append(@, <<ord[k], r>>)])
                  ELSE standalone_loop(d, ord, k + 1, acc)
             ELSE standalone_loop(d, ord, k + 1, acc)

no_relationships ==
    [raised |-> "none", complementary |-> <<>>, exclusive |-> <<>>,
     primary |-> <<>>, dependent |-> <<>>]

\* ord is the order in which the set all_integrations is iterated; an
\* exception leaves the caller without any of the four lists
analyze_integration_relationships(d, ord) ==
    LET after_pairs == pair_loop(d, combinations2(ord), 1, no_relationships)
    IN  IF after_pairs.raised # "none"
        THEN [no_relationships EXCEPT !.raised = after_pairs.raised]
        ELSE standalone_loop(d, ord, 1, after_pairs)

-----------------------------------------------------------------------------
(* Specification of one analysis call on a relation table *)

NoName == <<>>

InitNormIdle ==
    /\ name = NoName
    /\ standardized = <<>>
    /\ restandardized = <<>>
    /\ cleaned = <<>>
    /\ normalized = {}

InitRelIdle ==
    /\ df = <<>>
    /\ called = "none"
    /\ order = <<>>
    /\ freq = <<>>
    /\ pairs_df = [raised |-> "none", rows |-> {}]
    /\ relationships = no_relationships

InitRel ==
    /\ InitRelIdle /\ InitNormIdle
    /\ InitRowIdle /\ InitDescIdle /\ InitExtIdle /\ InitScrIdle
    /\ InitLateIdle

\* pd.read_csv delivers one more app row
read_row ==
    /\ called = "none"
    /\ Len(df) < MaxApps
    /\ \E row \in ProcessedRows : df' = Append(df, row)
    /\ UNCHANGED <<called, order, freq, pairs_df, relationships>>

call_analyze_integration_frequency ==
    /\ called = "none"
    /\ called' = "analyze_integration_frequency"
    /\ freq' = analyze_integration_frequency(df)
    /\ UNCHANGED <<df, order, pairs_df, relationships>>

call_analyze_integration_pairs ==
    /\ called = "none"
    /\ called' = "analyze_integration_pairs"
    /\ pairs_df' = analyze_integration_pairs(df)
    /\ UNCHANGED <<df, order, freq, relationships>>

call_analyze_common_pairs ==
    /\ called = "none"
    /\ called' = "analyze_common_pairs"
    /\ pairs_df' = analyze_common_pairs(df)
    /\ UNCHANGED <<df, order, freq, relationships>>

call_analyze_integration_relationships ==
    /\ called = "none"
    /\ called' = "analyze_integration_relationships"
    /\ \E ord \in IterationOrders(all_integrations(df)) :
          /\ order' = ord
          /\ relationships' = analyze_integration_relationships(df, ord)
    /\ UNCHANGED <<df, freq, pairs_df>>

NextRel ==
    \/ read_row /\ UNCHANGED <<normVars, rowVars, descVars, extVars, scrVars, lateVars>>
    \/ call_analyze_integration_frequency /\ UNCHANGED <<normVars, rowVars, descVars, extVars, scrVars, lateVars>>
    \/ call_analyze_integration_pairs /\ UNCHANGED <<normVars, rowVars, descVars, extVars, scrVars, lateVars>>
    \/ call_analyze_common_pairs /\ UNCHANGED <<normVars, rowVars, descVars, extVars, scrVars, lateVars>>
    \/ call_analyze_integration_relationships /\ UNCHANGED <<normVars, rowVars, descVars, extVars, scrVars, lateVars>>

SpecRel == InitRel /\ [][NextRel]_vars

-----------------------------------------------------------------------------
(* Properties of the analysers *)

\* number of apps whose list contains x
apps_containing(d, x) == Cardinality({i \in 1..Len(d) : x \in Range(d[i])})

\* number of apps whose list contains both a and b
apps_containing_both(d, a, b) ==
    Cardinality({i \in 1..Len(d) : a \in Range(d[i]) /\ b \in Range(d[i])})

\* the (int1, int2) pairs the call visited, in the orientation it used
visited_pairs == Range(combinations2(order))

relationships_returned == called = "analyze_integration_relationships"

\* C1: for every pair of distinct integrations that co-occur in at least one
\* app, the lift analyze_integration_relationships computes is
\* P(a,b) / (P(a) * P(b)) = both * total / (count(a) * count(b)).
C1_LiftIsProbabilityRatio ==
    relationships_returned =>
        \A p \in visited_pairs :
            apps_containing_both(df, p[1], p[2]) > 0 =>
                /\ ~lift_raises(df, p[1], p[2])
                /\ lift(df, p[1], p[2])[1]
                       * (apps_containing(df, p[1]) * apps_containing(df, p[2]))
                   = lift(df, p[1], p[2])[2]
                       * (apps_containing_both(df, p[1], p[2]) * Len(df))

\* C2: lift is symmetric: taking a as int1 and b as int2 gives the same
\* outcome and the same value as taking b as int1 and a as int2.
C2_LiftSymmetric ==
    relationships_returned =>
        \A p \in visited_pairs :
            apps_containing_both(df, p[1], p[2]) > 0 =>
                /\ lift_raises(df, p[1], p[2]) = lift_raises(df, p[2], p[1])
                /\ lift(df, p[1], p[2])[1] * lift(df, p[2], p[1])[2]
                   = lift(df, p[2], p[1])[1] * lift(df, p[1], p[2])[2]

\* C3: analyze_integration_relationships never fails with a division by
\* zero; it always returns its four lists.
C3_NoDivisionByZero ==
    relationships_returned => relationships.raised = "none"

\* C4: on app1 = {Facebook, Stripe}, app2 = {Facebook} the call computes
\* lift(Facebook, Stripe) = 2.0 and lists the pair in neither
\* 'complementary' nor 'exclusive'.
C4_BoundaryLiftIsTwo ==
    (relationships_returned /\ df = << <<"Facebook", "Stripe">>, <<"Facebook">> >>) =>
        /\ relationships.raised = "none"
        /\ \A p \in visited_pairs :
              /\ ~lift_raises(df, p[1], p[2])
              /\ lift(df, p[1], p[2])[1] = 2 * lift(df, p[1], p[2])[2]
        /\ relationships.complementary = <<>>
        /\ relationships.exclusive = <<>>

listed(lst, x) == \E i \in 1..Len(lst) : lst[i][1] = x

\* C5: for every integration x of the table the standalone ratio is
\* (apps where x is the only integration) / (apps containing x), lies in
\* [0, 1], x is listed as 'primary' exactly when the ratio is > 0.5 and as
\* 'dependent' exactly when it is < 0.1, never both, and an integration that
\* does not occur is in neither list.
C5_StandaloneClassification ==
    relationships_returned =>
        /\ relationships.raised = "none"
        /\ \A x \in all_integrations(df) :
              LET alone == Cardinality({i \in 1..Len(df) : df[i] = <<x>>})
                  total == apps_containing(df, x)
              IN  /\ standalone_ratio(df, x) = <<alone, total>>
                  /\ 0 <= alone /\ alone <= total
                  /\ listed(relationships.primary, x) <=> 2 * alone > total
                  /\ listed(relationships.dependent, x) <=> 10 * alone < total
                  /\ ~(listed(relationships.primary, x) /\ listed(relationships.dependent, x))
        /\ \A x \in Labels \ all_integrations(df) :
              ~listed(relationships.primary, x) /\ ~listed(relationships.dependent, x)

\* C6: the frequency analyze_integration_frequency returns for a label is
\* the number of apps whose list contains it, and labels that occur in no
\* app are absent from the result.
C6_FrequencyCountsApps ==
    called = "analyze_integration_frequency" =>
        /\ DOMAIN freq = {x \in Labels : apps_containing(df, x) > 0}
        /\ \A x \in DOMAIN freq : freq[x] = apps_containing(df, x)

\* a table where one label occurs in several apps, one app has several
\* labels and one label occurs nowhere
C6_Witness ==
    /\ called = "analyze_integration_frequency"
    /\ \E x \in DOMAIN freq : freq[x] >= 2
    /\ \E i \in 1..Len(df) : Len(df[i]) >= 2
    /\ DOMAIN freq # Labels

\* C7: the pair statistics of analyze_integration_pairs and of
\* analyze_common_pairs hold exactly one entry (integration1, integration2,
\* count) for every unordered pair that co-occurs in at least one app, with
\* integration1 < integration2 and count = number of apps containing both,
\* and no other entry.
C7_PairStatistics ==
    called \in {"analyze_integration_pairs", "analyze_common_pairs"} =>
        /\ pairs_df.raised = "none"
        /\ pairs_df.rows =
              {[integration1 |-> a, integration2 |-> b,
                count |-> apps_containing_both(df, a, b)] :
                  <<a, b>> \in {q \in Labels \X Labels :
                      StrLess(q[1], q[2]) /\ apps_containing_both(df, q[1], q[2]) > 0}}

-----------------------------------------------------------------------------
(* Specification of the normalisers applied to one raw candidate *)

MaxWords == 2

\* words raw candidates are made of: alias keys in several spellings, words
\* that merely contain an alias key, and words unknown to the tables
Vocabulary ==
    << <<"F", "B">>,
       <<"F", "a", "c", "e", "b", "o", "o", "k">>,
       <<"i", "n", "s", "t", "a", "g", "r", "a", "m">>,
       <<"b", "i", "g">>,
       <<"p", "a", "y", "p", "a", "l">>,
       <<"e", "b", "a", "y">>,
       <<"S", "h", "o", "p", "i", "f", "y">>,
       <<"P", "O", "S">>,
       <<"p", "i", "x", "e", "l">> >>

\* the separators between the words of a candidate
Separators == {<<" ">>, <<" ", " ">>}

\* the ways a candidate is padded: (leading, trailing)
Paddings == {<< <<>>, <<>> >>, << <<" ">>, <<" ">> >>}

Phrases ==
    UNION {[1..n -> Range(Vocabulary)] : n \in 1..MaxWords}

AliasKeys ==
    {name_mappings[i][1] : i \in 1..Len(name_mappings)}
        \cup {clean_name_mappings[i][1] : i \in 1..Len(clean_name_mappings)}

\* the raw candidates: padded phrases, and every alias key as written in
\* the table, in upper case, and capitalised between blanks
RawNames ==
    {pad[1] \o Join(sep, ws) \o pad[2] :
        pad \in Paddings, sep \in Separators, ws \in Phrases}
        \cup AliasKeys
        \cup {Upper(k) : k \in AliasKeys}
        \cup {<<" ">> \o Capitalize(k) \o <<" ">> : k \in AliasKeys}

InitNorm ==
    /\ name \in RawNames
    /\ standardized = <<>>
    /\ restandardized = <<>>
    /\ cleaned = <<>>
    /\ normalized = {}
    /\ InitRelIdle
    /\ InitRowIdle /\ InitDescIdle /\ InitExtIdle /\ InitScrIdle
    /\ InitLateIdle

\* standardize_integration_name(name)
call_standardize ==
    /\ "standardize" \notin normalized
    /\ standardized' = standardize_integration_name(name)
    /\ normalized' = normalized \cup {"standardize"}
    /\ UNCHANGED <<name, restandardized, cleaned>>

\* standardize_integration_name applied to its own output
call_standardize_again ==
    /\ "standardize" \in normalized
    /\ "restandardize" \notin normalized
    /\ restandardized' = standardize_integration_name(standardized)
    /\ normalized' = normalized \cup {"restandardize"}
    /\ UNCHANGED <<name, standardized, cleaned>>

\* clean_integration_name(name)
call_clean ==
    /\ "clean" \notin normalized
    /\ cleaned' = clean_integration_name(name)
    /\ normalized' = normalized \cup {"clean"}
    /\ UNCHANGED <<name, standardized, restandardized>>

NextNorm ==
    \/ call_standardize /\ UNCHANGED <<relVars, rowVars, descVars, extVars, scrVars, lateVars>>
    \/ call_standardize_again /\ UNCHANGED <<relVars, rowVars, descVars, extVars, scrVars, lateVars>>
    \/ call_clean /\ UNCHANGED <<relVars, rowVars, descVars, extVars, scrVars, lateVars>>

SpecNorm == InitNorm /\ [][NextNorm]_vars

-----------------------------------------------------------------------------
(* Properties of the normalisers *)

\* lower-cased and trimmed, as both normalisers start
Trimmed(s) == Strip(Lower(s))

\* lower-cased, trimmed, and every run of whitespace collapsed to one blank
WhitespaceNormalized(s) == Join(<<" ">>, Split(Lower(s)))

\* C8: standardize_integration_name is idempotent:
\* normalize(normalize(x)) = normalize(x) for every raw candidate x.
C8_Idempotent ==
    "restandardize" \in normalized => restandardized = standardized

\* C9: for every input that equals an alias key after lower-casing, trimming
\* and collapsing internal whitespace runs, standardize_integration_name and
\* clean_integration_name return the canonical label mapped to that key.
C9_LookupWhitespaceNormalized ==
    /\ ("standardize" \in normalized /\ HasKey(name_mappings, WhitespaceNormalized(name)))
          => standardized = Lookup(name_mappings, WhitespaceNormalized(name))
    /\ ("clean" \in normalized /\ HasKey(clean_name_mappings, WhitespaceNormalized(name)))
          => cleaned = Lookup(clean_name_mappings, WhitespaceNormalized(name))

\* C9 as amended: for every input that equals an alias key after lower-casing
\* and trimming surrounding whitespace, both normalisers return the canonical
\* label mapped to that key.
C9_LookupCaseInsensitiveTrimmed ==
    /\ ("standardize" \in normalized /\ HasKey(name_mappings, Trimmed(name)))
          => standardized = Lookup(name_mappings, Trimmed(name))
    /\ ("clean" \in normalized /\ HasKey(clean_name_mappings, Trimmed(name)))
          => cleaned = Lookup(clean_name_mappings, Trimmed(name))

\* a padded, capitalised spelling of a key of both tables, resolved by both
\* normalisers to a label spelled differently from the key
C9_Witness ==
    /\ {"standardize", "clean"} \subseteq normalized
    /\ name # Trimmed(name)
    /\ name # Lower(name)
    /\ name[1] \in Whitespace
    /\ HasKey(name_mappings, Trimmed(name))
    /\ HasKey(clean_name_mappings, Trimmed(name))
    /\ standardized = Lookup(name_mappings, Trimmed(name))
    /\ cleaned = standardized
    /\ standardized # Capitalize(Trimmed(name))

\* C10: when a candidate has no exact alias match but contains an alias text,
\* the string standardize_integration_name returns contains the canonical
\* label of a contained alias, in its canonical spelling and casing.
C10_CanonicalLabelInOutput ==
    ("standardize" \in normalized
        /\ ~HasKey(name_mappings, Trimmed(name))
        /\ \E i \in 1..Len(name_mappings) : Contains(name_mappings[i][1], Trimmed(name)))
    => \E i \in 1..Len(name_mappings) :
          /\ Contains(name_mappings[i][1], Trimmed(name))
          /\ Contains(name_mappings[i][2], standardized)

-----------------------------------------------------------------------------
(* More of Python's str and list operations, used by the row pipelines and  *)
(* the description extractors.                                              *)

Min(a, b) == IF a < b THEN a ELSE b
Max(a, b) == IF a > b THEN a ELSE b

\* s.find(p): 0-based index of the first occurrence of p in s, -1 when absent
Find(p, s) ==
    IF Contains(p, s)
    THEN (CHOOSE i \in 1..(Len(s) + 1) :
             /\ StartsWithAt(p, s, i)
             /\ \A j \in 1..(i - 1) : ~StartsWithAt(p, s, j)) - 1
    ELSE -1

\* s[a:b] for 0 <= a
Slice(s, a, b) == SubSeq(s, a + 1, Min(b, Len(s)))

\* s.strip(chars): characters of the set chars removed from both ends
RECURSIVE LStripChars(_, _)
LStripChars(s, chars) ==
    IF s = <<>> \/ s[1] \notin chars THEN s ELSE LStripChars(Tail(s), chars)

RECURSIVE RStripChars(_, _)
RStripChars(s, chars) ==
    IF s = <<>> \/ s[Len(s)] \notin chars THEN s
    ELSE RStripChars(SubSeq(s, 1, Len(s) - 1), chars)

StripChars(s, chars) == RStripChars(LStripChars(s, chars), chars)

\* 1-based index of the first occurrence of p in s at or after position i,
\* 0 when there is none
NextAt(p, s, i) ==
    IF \E j \in i..(Len(s) + 1) : StartsWithAt(p, s, j)
    THEN CHOOSE j \in i..(Len(s) + 1) :
            /\ StartsWithAt(p, s, j)
            /\ \A h \in i..(j - 1) : ~StartsWithAt(p, s, h)
    ELSE 0

\* s.split(sep) for a non-empty separator string: the pieces between the
\* non-overlapping occurrences found from left to right, empty pieces kept
RECURSIVE SplitSepFrom(_, _, _)
SplitSepFrom(s, sep, i) ==
    IF NextAt(sep, s, i) = 0 THEN <<SubSeq(s, i, Len(s))>>
    ELSE <<SubSeq(s, i, NextAt(sep, s, i) - 1)>>
             \o SplitSepFrom(s, sep, NextAt(sep, s, i) + Len(sep))

SplitSep(s, sep) == SplitSepFrom(s, sep, 1)

\* re.split on a class of single characters: empty pieces are kept
SplitChars(s, chars) ==
    LET at == {i \in 1..Len(s) : s[i] \in chars}
        n == Cardinality(at)
        pos(j) == IF j = 0 THEN 0
                  ELSE IF j = n + 1 THEN Len(s) + 1
                  ELSE CHOOSE i \in at : Cardinality({x \in at : x < i}) = j - 1
    IN  [j \in 1..(n + 1) |-> SubSeq(s, pos(j - 1) + 1, pos(j) - 1)]

\* s.replace(c, '') for a single character c
RemoveChar(s, c) == SelectSeq(s, LAMBDA x : x # c)

\* len(s.split()): the number of whitespace-delimited words
WordCount(s) ==
    Cardinality({i \in 1..Len(s) :
        s[i] \notin Whitespace /\ (i = 1 \/ s[i - 1] \in Whitespace)})

\* the characters of the model in code-point order
CharOrder ==
    <<"\t", "\n", " ", "!", "&", "'", ",", "-", ".",
      "0", "1", "2", "3", "4", "5", "6", "7", "8", "9", ";", "?",
      "A", "B", "C", "D", "E", "F", "G", "H", "I", "J", "K", "L", "M",
      "N", "O", "P", "Q", "R", "S", "T", "U", "V", "W", "X", "Y", "Z",
      "[", "]", "_",
      "a", "b", "c", "d", "e", "f", "g", "h", "i", "j", "k", "l", "m",
      "n", "o", "p", "q", "r", "s", "t", "u", "v", "w", "x", "y", "z", "|">>

Ord(c) == CHOOSE i \in 1..Len(CharOrder) : CharOrder[i] = c

\* a < b for two str values
StrLT(a, b) ==
    \E k \in 1..(Len(a) + 1) :
        /\ k <= Len(b)
        /\ \A j \in 1..(k - 1) : a[j] = b[j]
        /\ (k = Len(a) + 1 \/ Ord(a[k]) < Ord(b[k]))

\* sorted(S) for a set of str values
RECURSIVE SortedStrings(_)
SortedStrings(S) ==
    IF S = {} THEN <<>>
    ELSE LET m == CHOOSE x \in S : \A y \in S \ {x} : StrLT(x, y)
         IN  <<m>> \o SortedStrings(S \ {m})

\* [f(x) for x in items if x.strip()] style filters keep list order
RECURSIVE NonEmpty(_)
NonEmpty(items) ==
    IF items = <<>> THEN <<>>
    ELSE IF items[1] = <<>> THEN NonEmpty(Tail(items))
    ELSE <<items[1]>> \o NonEmpty(Tail(items))

StripEach(items) == [i \in 1..Len(items) |-> Strip(items[i])]

-----------------------------------------------------------------------------
(* process_integrations.py: standardize_integration_name and the row loop   *)
(* of process_integrations                                                  *)

SHOPIFY_PRODUCTS ==
    << <<<<"f", "l", "o", "w">>, <<"S", "h", "o", "p", "i", "f", "y", " ", "F", "l", "o", "w">>>>,
       <<<<"p", "o", "s">>, <<"S", "h", "o", "p", "i", "f", "y", " ", "P", "O", "S">>>>,
       <<<<"c", "h", "e", "c", "k", "o", "u", "t">>, <<"S", "h", "o", "p", "i", "f", "y", " ", "C", "h", "e", "c", "k", "o", "u", "t">>>>,
       <<<<"m", "a", "r", "k", "e", "t", "s">>, <<"S", "h", "o", "p", "i", "f", "y", " ", "M", "a", "r", "k", "e", "t", "s">>>>,
       <<<<"s", "h", "i", "p", "p", "i", "n", "g">>, <<"S", "h", "o", "p", "i", "f", "y", " ", "S", "h", "i", "p", "p", "i", "n", "g">>>>,
       <<<<"e", "m", "a", "i", "l">>, <<"S", "h", "o", "p", "i", "f", "y", " ", "E", "m", "a", "i", "l">>>>,
       <<<<"f", "o", "r", "m", "s">>, <<"S", "h", "o", "p", "i", "f", "y", " ", "F", "o", "r", "m", "s">>>>,
       <<<<"f", "u", "l", "f", "i", "l", "l", "m", "e", "n", "t">>, <<"S", "h", "o", "p", "i", "f", "y", " ", "F", "u", "l", "f", "i", "l", "l", "m", "e", "n", "t">>>>,
       <<<<"p", "a", "y", "m", "e", "n", "t", "s">>, <<"S", "h", "o", "p", "i", "f", "y", " ", "P", "a", "y", "m", "e", "n", "t", "s">>>>,
       <<<<"a", "n", "a", "l", "y", "t", "i", "c", "s">>, <<"S", "h", "o", "p", "i", "f", "y", " ", "A", "n", "a", "l", "y", "t", "i", "c", "s">>>> >>

name_map ==
    << <<<<"s", "h", "o", "p", "i", "f", "y", " ", "p", "o", "s">>, <<"S", "h", "o", "p", "i", "f", "y", " ", "P", "O", "S">>>>,
       <<<<"p", "o", "i", "n", "t", " ", "o", "f", " ", "s", "a", "l", "e">>, <<"S", "h", "o", "p", "i", "f", "y", " ", "P", "O", "S">>>>,
       <<<<"f", "a", "c", "e", "b", "o", "o", "k", " ", "s", "h", "o", "p">>, <<"F", "a", "c", "e", "b", "o", "o", "k", " ", "S", "h", "o", "p">>>>,
       <<<<"f", "b", " ", "s", "h", "o", "p">>, <<"F", "a", "c", "e", "b", "o", "o", "k", " ", "S", "h", "o", "p">>>>,
       <<<<"i", "n", "s", "t", "a", "g", "r", "a", "m", " ", "s", "h", "o", "p">>, <<"I", "n", "s", "t", "a", "g", "r", "a", "m", " ", "S", "h", "o", "p">>>>,
       <<<<"i", "g", " ", "s", "h", "o", "p">>, <<"I", "n", "s", "t", "a", "g", "r", "a", "m", " ", "S", "h", "o", "p">>>>,
       <<<<"g", "o", "o", "g", "l", "e", " ", "m", "e", "r", "c", "h", "a", "n", "t">>, <<"G", "o", "o", "g", "l", "e", " ", "M", "e", "r", "c", "h", "a", "n", "t", " ", "C", "e", "n", "t", "e", "r">>>>,
       <<<<"g", "o", "o", "g", "l", "e", " ", "s", "h", "o", "p", "p", "i", "n", "g">>, <<"G", "o", "o", "g", "l", "e", " ", "M", "e", "r", "c", "h", "a", "n", "t", " ", "C", "e", "n", "t", "e", "r">>>>,
       <<<<"t", "i", "k", "t", "o", "k", " ", "s", "h", "o", "p">>, <<"T", "i", "k", "T", "o", "k", " ", "S", "h", "o", "p">>>> >>

\* for key, standard_name in SHOPIFY_PRODUCTS.items(): if key in name: return
RECURSIVE shopify_product(_, _)
shopify_product(n, i) ==
    IF i > Len(SHOPIFY_PRODUCTS) THEN <<>>
    ELSE IF Contains(SHOPIFY_PRODUCTS[i][1], n) THEN SHOPIFY_PRODUCTS[i][2]
    ELSE shopify_product(n, i + 1)

\* standardize_integration_name of process_integrations.py
pi_standardize_integration_name(raw) ==
    LET n == Strip(Lower(raw))
        words == Split(n)
    IN  IF shopify_product(n, 1) # <<>> THEN shopify_product(n, 1)
        ELSE IF HasKey(name_map, n) THEN Lookup(name_map, n)
        ELSE IF Len(words) > 0
             THEN Join(<<" ">>, [i \in 1..Len(words) |-> Capitalize(words[i])])
             ELSE n

\* the set unique_integrations built by the loop over row['integrations'].split(',')
unique_integrations(c) ==
    LET raw_integrations == StripEach(SplitSep(c, <<",">>))
    IN  {pi_standardize_integration_name(raw_integrations[i]) :
            i \in {j \in 1..Len(raw_integrations) : raw_integrations[j] # <<>>}}
        \ {<<>>}

\* the same loop writing the labels as met and counting the raw entries
process_integrations_as_met(c) ==
    IF c = <<>> \/ Strip(c) = <<>>
    THEN [processed_integrations |-> <<>>, integration_count |-> 0]
    ELSE LET raw_integrations == NonEmpty(StripEach(SplitSep(c, <<",">>)))
             labels == NonEmpty([i \in 1..Len(raw_integrations) |->
                          pi_standardize_integration_name(raw_integrations[i])])
         IN  [processed_integrations |-> Join(<<",">>, labels),
              integration_count |-> Len(labels)]

\* one iteration of the loop of process_integrations: the two cells it writes
process_integrations(c) ==
    IF c = <<>> \/ Strip(c) = <<>>
    THEN [processed_integrations |-> <<>>, integration_count |-> 0]
    ELSE [processed_integrations |->
              Join(<<",">>, SortedStrings(unique_integrations(c))),
          integration_count |-> Cardinality(unique_integrations(c))]

-----------------------------------------------------------------------------
(* standardize_integrations.py: process_integration_list *)

process_integration_list(c) ==
    IF c = <<>> THEN <<>>
    ELSE LET integrations == SplitChars(c, {",", "|"})
         IN  SortedStrings({standardize_integration_name(integrations[i]) :
                               i \in 1..Len(integrations)} \ {<<>>})

-----------------------------------------------------------------------------
(* analyze_integrations.py: load_integration_data *)

integration_keywords ==
    << <<"i", "n", "t", "e", "g", "r", "a", "t", "e", "s", " ", "w", "i", "t", "h">>,
       <<"w", "o", "r", "k", "s", " ", "w", "i", "t", "h">>,
       <<"c", "o", "m", "p", "a", "t", "i", "b", "l", "e", " ", "w", "i", "t", "h">>,
       <<"c", "o", "n", "n", "e", "c", "t", "s", " ", "t", "o">>,
       <<"s", "y", "n", "c", " ", "w", "i", "t", "h">>,
       <<"s", "y", "n", "c", "s", " ", "w", "i", "t", "h">>,
       <<"i", "n", "t", "e", "g", "r", "a", "t", "i", "o", "n", " ", "w", "i", "t", "h">>,
       <<"i", "n", "t", "e", "g", "r", "a", "t", "e", "d", " ", "w", "i", "t", "h">>,
       <<"c", "o", "n", "n", "e", "c", "t", " ", "y", "o", "u", "r">>,
       <<"c", "o", "n", "n", "e", "c", "t", "s", " ", "y", "o", "u", "r">>,
       <<"i", "n", "t", "e", "g", "r", "a", "t", "i", "o", "n", " ", "f", "o", "r">>,
       <<"p", "l", "u", "g", "i", "n", " ", "f", "o", "r">> >>

platforms ==
    << <<"S", "h", "o", "p", "i", "f", "y">>,
       <<"F", "a", "c", "e", "b", "o", "o", "k">>,
       <<"I", "n", "s", "t", "a", "g", "r", "a", "m">>,
       <<"G", "o", "o", "g", "l", "e">>,
       <<"T", "i", "k", "T", "o", "k">>,
       <<"T", "w", "i", "t", "t", "e", "r">>,
       <<"P", "i", "n", "t", "e", "r", "e", "s", "t">>,
       <<"W", "h", "a", "t", "s", "A", "p", "p">>,
       <<"S", "n", "a", "p", "c", "h", "a", "t">>,
       <<"Y", "o", "u", "T", "u", "b", "e">>,
       <<"A", "m", "a", "z", "o", "n">>,
       <<"e", "B", "a", "y">>,
       <<"E", "t", "s", "y">>,
       <<"W", "a", "l", "m", "a", "r", "t">>,
       <<"K", "l", "a", "v", "i", "y", "o">>,
       <<"M", "a", "i", "l", "c", "h", "i", "m", "p">>,
       <<"Z", "a", "p", "i", "e", "r">>,
       <<"S", "l", "a", "c", "k">>,
       <<"Z", "e", "n", "d", "e", "s", "k">>,
       <<"S", "a", "l", "e", "s", "f", "o", "r", "c", "e">>,
       <<"H", "u", "b", "S", "p", "o", "t">>,
       <<"Q", "u", "i", "c", "k", "B", "o", "o", "k", "s">>,
       <<"X", "e", "r", "o">>,
       <<"P", "a", "y", "P", "a", "l">>,
       <<"S", "t", "r", "i", "p", "e">>,
       <<"S", "q", "u", "a", "r", "e">>,
       <<"K", "l", "a", "r", "n", "a">>,
       <<"A", "f", "f", "i", "r", "m">>,
       <<"S", "h", "i", "p", "S", "t", "a", "t", "i", "o", "n">>,
       <<"S", "h", "i", "p", "B", "o", "b">>,
       <<"F", "e", "d", "E", "x">>,
       <<"U", "P", "S">>,
       <<"U", "S", "P", "S">>,
       <<"D", "H", "L">> >>

platforms_lower == [q \in 1..Len(platforms) |-> Lower(platforms[q])]

\* the platforms whose lower-case name occurs in the lower-case text t
platforms_in(t) ==
    {platforms[q] : q \in {p \in 1..Len(platforms) : Contains(platforms_lower[p], t)}}

\* the keywords that occur in the lower-case text t
keywords_in(t) ==
    {k \in 1..Len(integration_keywords) : Contains(integration_keywords[k], t)}

\* first loop of extract_integrations: platforms in the 100 characters that
\* start at the first occurrence of a keyword
keyword_platforms(d, details_lower) ==
    UNION {LET pos == Find(integration_keywords[k], details_lower)
           IN  platforms_in(Lower(Slice(d, pos, pos + 100))) :
              k \in keywords_in(details_lower)}

\* the 100 characters around the first mention of a platform
context(platform_lower, details_lower) ==
    LET at == Find(platform_lower, details_lower)
    IN  Slice(details_lower, Max(0, at - 50), Min(Len(details_lower), at + 50))

\* second loop: platforms mentioned with a keyword in that context
direct_platforms(details_lower) ==
    {platforms[q] : q \in {p \in 1..Len(platforms) :
        /\ Contains(platforms_lower[p], details_lower)
        /\ keywords_in(context(platforms_lower[p], details_lower)) # {}}}

\* the extractor taking every mentioned platform, keyword or not
extract_integrations_any_mention(d) ==
    keyword_platforms(d, Lower(d)) \cup platforms_in(Lower(d))

\* the set integrations of extract_integrations (load_integration_data)
extract_integrations(d) ==
    keyword_platforms(d, Lower(d)) \cup direct_platforms(Lower(d))

\* parse_integrations: a missing cell is the empty cell
parse_integrations(c) ==
    IF c = <<>> THEN <<>>
    ELSE LET cleaned_str == RemoveChar(RemoveChar(StripChars(c, {"[", "]"}),
                                                  "\""), "'")
         IN  NonEmpty(StripEach(SplitSep(cleaned_str, <<",">>)))

\* the same set with the raw items taken as they are
cleaned_integrations_set_raw(existing, extracted) ==
    (Range(existing) \cup Range(extracted)) \ {<<>>}

\* the set behind df['cleaned_integrations'] of one row, from the parsed
\* cell and the extractor output
cleaned_integrations_set(existing, extracted) ==
    LET combined == Range(existing) \cup Range(extracted)
    IN  {clean_integration_name(i) : i \in combined} \ {<<>>}

-----------------------------------------------------------------------------
(* One app row, handled by one of the three row pipelines (each script      *)
(* reads its own table).                                                    *)

MaxItems == 2

RowItems ==
    { <<"T", "i", "k", "T", "o", "k", " ", "S", "h", "o", "p">>,
      <<"t", "i", "k", "t", "o", "k", " ", " ", "s", "h", "o", "p">>,
      <<" ", "F", "B", " ">>,
      <<"a", "p", "i">>,
      <<"g", "o", "o", "g", "l", "e", "\n", "a", "d", "s">>,
      <<"z", "a", "p", "i", "e", "r", "|", "K", "l", "a", "v", "i", "y", "o">>,
      <<"[", "'", "S", "t", "r", "i", "p", "e", "'", "]">>,
      <<" ">> }

RowCells ==
    {Join(<<",">>, items) :
        items \in UNION {[1..n -> RowItems] : n \in 0..MaxItems}}

RowDetails ==
    { <<>>,
      <<"I", "n", "t", "e", "g", "r", "a", "t", "e", "s", " ", "w", "i", "t",
        "h", " ", "S", "t", "r", "i", "p", "e", ".">> }

InitRow ==
    /\ cell \in RowCells
    /\ details \in RowDetails
    /\ processed_integrations = <<>>
    /\ integration_count = 0
    /\ integrations_list = <<>>
    /\ extracted_integrations = <<>>
    /\ cleaned_integrations = <<>>
    /\ row_done = {}
    /\ InitRelIdle /\ InitNormIdle /\ InitExtIdle /\ InitScrIdle
    /\ InitLateIdle

\* process_integrations handles the row
call_process_integrations ==
    /\ row_done = {}
    /\ processed_integrations' = process_integrations(cell).processed_integrations
    /\ integration_count' = process_integrations(cell).integration_count
    /\ row_done' = {"process_integrations"}
    /\ UNCHANGED <<cell, details, integrations_list, extracted_integrations,
                   cleaned_integrations>>

\* df['integrations'].apply(process_integration_list) handles the row
call_process_integration_list ==
    /\ row_done = {}
    /\ integrations_list' = process_integration_list(cell)
    /\ row_done' = {"process_integration_list"}
    /\ UNCHANGED <<cell, details, processed_integrations, integration_count,
                   extracted_integrations, cleaned_integrations>>

\* load_integration_data handles the row; both lists come out of a set, in
\* the set's iteration order
call_load_integration_data ==
    /\ row_done = {}
    /\ \E extracted \in IterationOrders(extract_integrations(details)) :
        /\ extracted_integrations' = extracted
        /\ cleaned_integrations' \in
             IterationOrders(
                 cleaned_integrations_set(parse_integrations(cell), extracted))
    /\ row_done' = {"load_integration_data"}
    /\ UNCHANGED <<cell, details, processed_integrations, integration_count,
                   integrations_list>>

NextRow ==
    \/ call_process_integrations /\ UNCHANGED <<normVars, relVars, extVars, scrVars, lateVars>>
    \/ call_process_integration_list /\ UNCHANGED <<normVars, relVars, extVars, scrVars, lateVars>>
    \/ call_load_integration_data /\ UNCHANGED <<normVars, relVars, extVars, scrVars, lateVars>>

SpecRow == InitRow /\ [][NextRow]_vars

-----------------------------------------------------------------------------
(* Properties of the row pipelines *)

\* the raw entries of the row's integrations cell
cell_items == IF cell = <<>> THEN <<>> ELSE SplitSep(cell, <<",">>)

\* the trimmed lower-case form of a raw entry is on the deny-list
deny_listed(item) ==
    \E i \in 1..Len(generic_terms) : generic_terms[i] = Strip(Lower(item))

\* the labels of the comma-joined column written by process_integrations
processed_labels ==
    IF processed_integrations = <<>> THEN <<>>
    ELSE SplitSep(processed_integrations, <<",">>)

\* the canonical labels the pipeline that handled the row has produced
canonical_labels ==
    Range(processed_labels) \cup Range(integrations_list)
        \cup Range(cleaned_integrations)

\* C11: every normaliser rejects a deny-listed generic term before any alias
\* lookup, so a row whose raw entries are all deny-listed terms (and whose
\* description yields nothing) ends with an empty canonical set in each of
\* the three pipelines.
C11_DenyListedTermsRejected ==
    (/\ row_done # {}
     /\ cell_items # <<>>
     /\ \A i \in 1..Len(cell_items) : deny_listed(cell_items[i])
     /\ extracted_integrations = <<>>)
        => canonical_labels = {}

\* C12: no label a normaliser puts into a canonical set has leading or
\* trailing whitespace or an embedded newline.
C12_LabelsTrimmedOnOneLine ==
    \A l \in canonical_labels : l = Strip(l) /\ "\n" \notin Range(l)

\* C13: the canonical set of a row handled by process_integrations or by
\* load_integration_data holds no empty string and no two labels that differ
\* only in letter case.
C13_NoEmptyNoCaseOnlyDuplicates ==
    row_done \subseteq {"process_integrations", "load_integration_data"}
        => /\ <<>> \notin canonical_labels
           /\ \A a, b \in canonical_labels : Lower(a) = Lower(b) => a = b

\* C14: the final list of a row handled by load_integration_data holds only
\* normalisations of the parsed structured entries and of the extractor's
\* output on the description.
C14_CanonicalWithinNormalizedSources ==
    row_done = {"load_integration_data"}
        => Range(cleaned_integrations) \subseteq
              {clean_integration_name(s) : s \in Range(parse_integrations(cell))}
                 \cup {clean_integration_name(c) : c \in Range(extracted_integrations)}

\* a row whose final list has one label from the structured cell and one
\* that only the description extractor found
C14_Witness ==
    /\ row_done = {"load_integration_data"}
    /\ Len(cleaned_integrations) = 2
    /\ extracted_integrations # <<>>
    /\ \E l \in Range(cleaned_integrations) :
          l \notin {clean_integration_name(s) : s \in Range(parse_integrations(cell))}
    /\ \E l \in Range(cleaned_integrations) :
          l \notin {clean_integration_name(c) : c \in Range(extracted_integrations)}

\* a list of labels is duplicate-free and in ascending str order
strictly_ascending(labels) ==
    \A i \in 1..(Len(labels) - 1) : StrLT(labels[i], labels[i + 1])

\* C19: the list written for a row by process_integrations and by
\* process_integration_list is duplicate-free and ascending, and
\* integration_count is the number of labels in processed_integrations.
C19_SortedUniqueAndCounted ==
    /\ row_done = {"process_integrations"}
          => /\ strictly_ascending(processed_labels)
             /\ integration_count = Len(processed_labels)
    /\ row_done = {"process_integration_list"}
          => strictly_ascending(integrations_list)

\* a row whose raw entries arrive in descending order and come out as two
\* counted labels
C19_Witness ==
    /\ row_done = {"process_integrations"}
    /\ Len(cell_items) = 2
    /\ StrLT(pi_standardize_integration_name(cell_items[2]),
             pi_standardize_integration_name(cell_items[1]))
    /\ integration_count = 2
    /\ Len(processed_labels) = 2

-----------------------------------------------------------------------------
(* analyze_integrations.py: extract_integrations inside load_app_data *)

app_data_integration_keywords ==
    << <<"i", "n", "t", "e", "g", "r", "a", "t", "e", "s", " ", "w", "i", "t", "h">>,
       <<"w", "o", "r", "k", "s", " ", "w", "i", "t", "h">>,
       <<"c", "o", "m", "p", "a", "t", "i", "b", "l", "e", " ", "w", "i", "t", "h">>,
       <<"c", "o", "n", "n", "e", "c", "t", "s", " ", "t", "o">>,
       <<"s", "y", "n", "c", "s", " ", "w", "i", "t", "h">>,
       <<"i", "n", "t", "e", "g", "r", "a", "t", "i", "o", "n", " ", "w", "i", "t", "h">> >>

\* the list found built for one keyword from text_after
found_after(text_after) ==
    LET by_comma == StripEach(SplitSep(text_after, <<",">>))
        by_and == Flatten([i \in 1..Len(by_comma) |->
                              SplitSep(by_comma[i], <<"a", "n", "d">>)])
    IN  NonEmpty(StripEach(by_and))

\* details.split(keyword)[1].split('.')[0]
text_after_first(d, keyword) ==
    SplitSep(SplitSep(d, keyword)[2], <<".">>)[1]

\* the list integrations after the loop over the keywords from index k on
RECURSIVE app_data_found(_, _)
app_data_found(d, k) ==
    IF k > Len(app_data_integration_keywords) THEN <<>>
    ELSE (IF Contains(app_data_integration_keywords[k], d)
          THEN found_after(text_after_first(d, app_data_integration_keywords[k]))
          ELSE <<>>) \o app_data_found(d, k + 1)

\* set(integrations) of extract_integrations (load_app_data)
app_data_extract_integrations(raw) == Range(app_data_found(Lower(raw), 1))

-----------------------------------------------------------------------------
(* scrape_sitemap.py: the integration list built by extract_app_info from    *)
(* the "Works with" section items and the description                       *)

app_info_integration_keywords ==
    << <<"i", "n", "t", "e", "g", "r", "a", "t", "e", "s", " ", "w", "i", "t", "h">>,
       <<"w", "o", "r", "k", "s", " ", "w", "i", "t", "h">>,
       <<"c", "o", "m", "p", "a", "t", "i", "b", "l", "e", " ", "w", "i", "t", "h">>,
       <<"c", "o", "n", "n", "e", "c", "t", "s", " ", "t", "o">>,
       <<"s", "y", "n", "c", " ", "w", "i", "t", "h">> >>

\* re.split(r'[.!?]+', desc_text); the empty pieces that a run of several
\* marks leaves here hold no keyword and are passed over by the caller
sentences(desc_text) == SplitChars(desc_text, {".", "!", "?"})

negated(sentence) ==
    \/ Contains(<<"i", "s", "n", "'", "t", " ", "c", "o", "m", "p", "a", "t",
                  "i", "b", "l", "e">>, sentence)
    \/ Contains(<<"n", "o", "t", " ", "c", "o", "m", "p", "a", "t", "i", "b",
                  "l", "e">>, sentence)

\* the names appended for one sentence that holds the keyword
potential_integrations(sentence, keyword) ==
    LET after_keyword == SplitSep(sentence, keyword)[2]
        pieces == SplitChars(after_keyword, {",", ";", "&"})
        stripped == [i \in 1..Len(pieces) |->
                        StripChars(pieces[i], {" ", "a", "n", "d", "\t", "\n"})]
    IN  SelectSeq(stripped, LAMBDA x : Len(x) > 1)

\* the names appended for one keyword
keyword_integrations(desc_text, keyword) ==
    IF ~Contains(keyword, desc_text) THEN <<>>
    ELSE LET ss == sentences(desc_text)
         IN  Flatten([i \in 1..Len(ss) |->
                 IF Contains(keyword, ss[i]) /\ ~negated(ss[i])
                 THEN potential_integrations(ss[i], keyword) ELSE <<>>])

\* set(integrations) before the final cleaning; works_with holds the names
\* read from the "Works with" section
app_info_integrations_set(works_with, description) ==
    Range(works_with) \cup
    UNION {Range(keyword_integrations(Lower(description),
                                      app_info_integration_keywords[k])) :
              k \in 1..Len(app_info_integration_keywords)}

skip_phrases ==
    { <<"i", "s", "n", "'", "t", " ", "c", "o", "m", "p", "a", "t", "i", "b",
        "l", "e">>,
      <<"n", "o", "t", " ", "c", "o", "m", "p", "a", "t", "i", "b", "l", "e">>,
      <<"o", "n", "l", "y", " ", "c", "o", "m", "p", "a", "t", "i", "b", "l",
        "e", " ", "w", "i", "t", "h", " ", "s", "t", "o", "r", "e", "s", " ",
        "t", "h", "a", "t">>,
      <<"t", "h", "i", "s", " ", "a", "p", "p", " ", "i", "s", "n", "'", "t">> }

\* the final cleaning of the list, kept in the order the set was iterated in
clean_app_info_integrations(integrations) ==
    LET stripped == [i \in 1..Len(integrations) |->
                        StripChars(integrations[i], {" ", ",", ".", ";"})]
        longer == SelectSeq(stripped, LAMBDA x : Len(x) > 1)
    IN  SelectSeq(longer, LAMBDA x :
            /\ \A phrase \in skip_phrases : ~Contains(phrase, Lower(x))
            /\ WordCount(x) <= 5)

-----------------------------------------------------------------------------
(* One description text, handled by one of the three extractors.            *)

MaxFragments == 2

Fragments ==
    {
      <<"W", "o", "r", "k", "s", " ", "w", "i", "t", "h", " ", "F", "a", "c",
        "e", "b", "o", "o", "k", ".", " ">>,
      <<"w", "o", "r", "k", "s", " ", "w", "i", "t", "h", " ", "a", "m", "a",
        "z", "o", "n", " ", "a", "n", "d", " ", "b", "r", "a", "n", "d", "f",
        "o", "l", "d", "e", "r", ".", " ">>,
      <<"i", "n", "t", "e", "g", "r", "a", "t", "e", "s", " ", "w", "i", "t",
        "h", " ", "s", "t", "r", "i", "p", "e", ",", " ">>,
      <<"K", "l", "a", "v", "i", "y", "o", " ", "p", "o", "p", "u", "p", "s",
        ".", " ">>,
      <<"u", "s", "e", "s", " ">>,
      <<"e", "b", "a", "y", " ", "&", " ", "e", "t", "s", "y", ";", " ">> }

Texts ==
    {Join(<<>>, fs) : fs \in UNION {[1..n -> Fragments] : n \in 1..MaxFragments}}

InitExtract ==
    /\ details \in Texts
    /\ extracted_integrations = <<>>
    /\ app_data_integrations = <<>>
    /\ app_info_integrations = <<>>
    /\ extract_done = {}
    /\ InitRelIdle /\ InitNormIdle /\ InitRowIdle /\ InitScrIdle
    /\ InitLateIdle

\* extract_integrations of load_app_data on the text
call_load_app_data_extract ==
    /\ extract_done = {}
    /\ app_data_integrations' \in
           IterationOrders(app_data_extract_integrations(details))
    /\ extract_done' = {"load_app_data"}
    /\ UNCHANGED <<details, extracted_integrations, app_info_integrations>>

\* extract_integrations of load_integration_data on the text
call_load_integration_data_extract ==
    /\ extract_done = {}
    /\ extracted_integrations' \in
           IterationOrders(extract_integrations(details))
    /\ extract_done' = {"load_integration_data"}
    /\ UNCHANGED <<details, app_data_integrations, app_info_integrations>>

\* extract_app_info on a page that has the text as its description and no
\* "Works with" section
call_extract_app_info ==
    /\ extract_done = {}
    /\ \E integrations \in
           IterationOrders(app_info_integrations_set(<<>>, Strip(details))) :
         app_info_integrations' = clean_app_info_integrations(integrations)
    /\ extract_done' = {"extract_app_info"}
    /\ UNCHANGED <<details, extracted_integrations, app_data_integrations>>

NextExtract ==
    \/ call_load_app_data_extract /\ UNCHANGED <<normVars, relVars, rowVars, scrVars, lateVars>>
    \/ call_load_integration_data_extract /\ UNCHANGED <<normVars, relVars, rowVars, scrVars, lateVars>>
    \/ call_extract_app_info /\ UNCHANGED <<normVars, relVars, rowVars, scrVars, lateVars>>

SpecExtract == InitExtract /\ [][NextExtract]_vars

-----------------------------------------------------------------------------
(* Properties of the description extractors *)

\* the text holds none of the given trigger phrases
no_trigger(keywords, text) ==
    \A k \in 1..Len(keywords) : ~Contains(keywords[k], Lower(text))

\* C15: on a text that holds none of its trigger phrases, the extractor of
\* load_app_data and the extractor of load_integration_data return the
\* empty list.
C15_NoTriggerNoCandidates ==
    /\ (extract_done = {"load_app_data"}
           /\ no_trigger(app_data_integration_keywords, details))
          => app_data_integrations = <<>>
    /\ (extract_done = {"load_integration_data"}
           /\ no_trigger(integration_keywords, details))
          => extracted_integrations = <<>>

\* a text that names a known platform but holds no trigger phrase, with the
\* extractor of load_integration_data having returned the empty list
C15_Witness ==
    /\ extract_done = {"load_integration_data"}
    /\ no_trigger(integration_keywords, details)
    /\ platforms_in(Lower(details)) # {}
    /\ extracted_integrations = <<>>

\* the window after the occurrence of keyword at position i of text d: up to
\* the next full stop, or the next occurrence of the same keyword
window_after(d, keyword, i) ==
    LET rest == SubSeq(d, i + Len(keyword), Len(d))
    IN  SplitSep(SplitSep(rest, keyword)[1], <<".">>)[1]

\* C16: the extractor of load_app_data returns the candidates of the window
\* after every occurrence of every trigger phrase, a second occurrence of the
\* same phrase included.
C16_EveryOccurrenceContributes ==
    extract_done = {"load_app_data"}
        => \A k \in 1..Len(app_data_integration_keywords) :
           \A i \in 1..Len(details) :
              StartsWithAt(app_data_integration_keywords[k], Lower(details), i)
                 => Range(found_after(window_after(Lower(details),
                                 app_data_integration_keywords[k], i)))
                       \subseteq Range(app_data_integrations)

\* candidate c stands in text t as whole words: some occurrence of it has no
\* letter directly before it and none directly after it
whole_words(c, t) ==
    \E i \in 1..Len(t) :
        /\ StartsWithAt(c, t, i)
        /\ (i = 1 \/ ~IsCased(t[i - 1]))
        /\ (i + Len(c) > Len(t) \/ ~IsCased(t[i + Len(c)]))

\* C17: every candidate emitted by the extractor of load_app_data and by the
\* description scan of extract_app_info is a whole fragment of the text; no
\* name is cut inside a word.
C17_CandidatesAreWholeFragments ==
    /\ \A i \in 1..Len(app_data_integrations) :
          whole_words(app_data_integrations[i], Lower(details))
    /\ \A i \in 1..Len(app_info_integrations) :
          whole_words(app_info_integrations[i], Lower(details))

\* the candidates of a list come in the order of their first appearance in
\* the text
in_order_of_appearance(candidates, text) ==
    \A i, j \in 1..Len(candidates) :
        i < j => Find(Lower(candidates[i]), Lower(text))
                    <= Find(Lower(candidates[j]), Lower(text))

\* C18: each extractor returns its candidates in the order of their first
\* appearance in the text.
C18_OrderOfFirstAppearance ==
    /\ in_order_of_appearance(app_data_integrations, details)
    /\ in_order_of_appearance(extracted_integrations, details)
    /\ in_order_of_appearance(app_info_integrations, details)

-----------------------------------------------------------------------------
(* scrape_integrations.py: try_urls and process_apps *)

MAX_RETRIES == 5
CONCURRENT_REQUESTS == 2
backoff_cap == 300
total_delay_cap == 600

\* what one GET of try_urls can come back with: the three statuses the code
\* tells apart from 200, a raised timeout / client error / other exception,
\* and a 200 page that is valid with integrations, valid without, or invalid
Responses ==
    {"429", "404", "other status", "exception",
     "valid page with integrations", "valid page without integrations",
     "invalid page"}

\* the result dictionaries of try_urls; a failure result has no 'page_found'
failure_result(error) ==
    [success |-> FALSE, error |-> error, integrations |-> <<>>]

success_result(integrations, page_found) ==
    [success |-> TRUE, integrations |-> integrations,
     page_found |-> page_found, error |-> "None"]

\* the non-empty lists extract_integrations can hand back for a page
ScrapedIntegrations == {<<"Klaviyo", "Stripe">>}

\* the loop body with the tests "retry_count < MAX_RETRIES" taken as true:
\* every 429, other status and exception starts another call
disposition_unbounded(response, retry_count) ==
    CASE response \in {"429", "other status", "exception"} -> "retry"
      [] response = "valid page with integrations" -> "return"
      [] OTHER -> "continue"

\* the loop body without the test "if integrations:": every valid page
\* returns
disposition_accepting_empty(response, retry_count) ==
    CASE response \in {"429", "other status", "exception"} ->
            IF retry_count < MAX_RETRIES THEN "retry" ELSE "continue"
      [] response \in {"valid page with integrations",
                       "valid page without integrations"} -> "return"
      [] OTHER -> "continue"

\* how the loop body of try_urls leaves after a response, at retry_count
disposition(response, retry_count) ==
    CASE response = "429" ->
            IF retry_count < MAX_RETRIES THEN "retry" ELSE "continue"
      [] response = "404" -> "continue"
      [] response = "other status" ->
            IF retry_count < MAX_RETRIES THEN "retry" ELSE "continue"
      [] response = "exception" ->
            IF retry_count < MAX_RETRIES THEN "retry" ELSE "continue"
      [] response = "valid page with integrations" -> "return"
      [] response = "valid page without integrations" -> "continue"
      [] response = "invalid page" -> "continue"

dispositions(retry_count) ==
    {disposition(response, retry_count) : response \in Responses}

\* random.uniform(0, retry_count * 2): the two ends of the interval, which
\* bound every sum of delays
jitter(retry_count) == {0, retry_count * 2}

\* the tuples (working_url, result) a call try_urls(session, urls,
\* retry_count, total_delay) can return, over all responses and jitters;
\* urls is the number of candidate URLs, working_url their index (0 for None)
RECURSIVE try_urls(_, _, _), for_url(_, _, _, _)
try_urls(urls, retry_count, total_delay) ==
    IF urls = 0 THEN {<<0, failure_result("No URLs provided")>>}
    ELSE IF retry_count > 0
    THEN UNION {
           LET delay == Min(backoff_cap, 2 ^ retry_count + j)
           IN  IF total_delay + delay > total_delay_cap
               THEN {<<0, failure_result("Max retry time exceeded")>>}
               ELSE for_url(urls, retry_count, total_delay + delay, 1) :
           j \in jitter(retry_count)}
    ELSE for_url(urls, retry_count, total_delay, 1)

\* the rest of the loop "for url in urls" from the url-th URL on
for_url(urls, retry_count, total_delay, url) ==
    IF url > urls THEN {<<0, failure_result("No valid URL found")>>}
    ELSE (IF "return" \in dispositions(retry_count)
          THEN {<<url, success_result(integrations, page_found)>> :
                   integrations \in ScrapedIntegrations,
                   page_found \in BOOLEAN}
          ELSE {})
         \cup (IF "retry" \in dispositions(retry_count)
               THEN try_urls(urls, retry_count + 1, total_delay)
               ELSE {})
         \cup (IF "continue" \in dispositions(retry_count)
               THEN for_url(urls, retry_count, total_delay, url + 1)
               ELSE {})

\* the row process_apps appends for a task that returned (working_url,
\* result); app stands for the row's own fields (api_key, app_name, URL)
result_row(app, working_url, result) ==
    [app |-> app,
     working_url |-> working_url,
     integrations |-> IF result.success
                      THEN Join(<<",">>, [i \in 1..Len(result.integrations) |->
                               <<result.integrations[i]>>])
                      ELSE <<>>,
     integration_count |-> IF result.success THEN Len(result.integrations)
                           ELSE 0,
     scrape_success |-> result.success,
     scrape_error |-> result.error,
     page_found |-> result.page_found]

MaxTasks == 3
MaxUrls == 1

\* what the call try_urls(session, urls) of process_app can return, per
\* length of urls
try_urls_returns == [urls \in 0..MaxUrls |-> try_urls(urls, 0, 0)]

NoResult == [success |-> FALSE, error |-> "pending", integrations |-> <<>>]

\* one process_app coroutine per row of df; urls is the length of the list
\* generate_app_urls returns for the row.  The tasks are interchangeable (any
\* pending task may take a free permit), so the rows are listed by
\* non-decreasing urls
InitScrape ==
    /\ tasks \in UNION {[1..n -> {[pc |-> "pending", urls |-> u,
                                   working_url |-> 0, result |-> NoResult,
                                   completed |-> 0] : u \in 0..MaxUrls}] :
                           n \in 1..MaxTasks}
    /\ \A a, b \in DOMAIN tasks : a <= b => tasks[a].urls <= tasks[b].urls
    /\ semaphore = CONCURRENT_REQUESTS
    /\ results = <<>>
    /\ InitRelIdle /\ InitNormIdle /\ InitRowIdle /\ InitDescIdle /\ InitExtIdle
    /\ InitLateIdle

\* "async with semaphore": the task enters when a permit is free
acquire(a) ==
    /\ tasks[a].pc = "pending"
    /\ semaphore > 0
    /\ semaphore' = semaphore - 1
    /\ tasks' = [tasks EXCEPT ![a].pc = "try_urls"]
    /\ UNCHANGED results

\* try_urls returns to process_app, which leaves the "async with" block and
\* completes with (row, working_url, result)
return_from_try_urls(a) ==
    /\ tasks[a].pc = "try_urls"
    /\ \E out \in try_urls_returns[tasks[a].urls] :
          tasks' = [tasks EXCEPT ![a].pc = "done",
                                 ![a].working_url = out[1],
                                 ![a].result = out[2],
                                 ![a].completed =
                                     1 + Cardinality({b \in DOMAIN tasks :
                                            tasks[b].completed > 0})]
    /\ semaphore' = semaphore + 1
    /\ UNCHANGED results

\* the result slot of a task that completed with an exception instead of a
\* tuple
Raised == [success |-> FALSE, error |-> "raised", integrations |-> <<>>]

\* an exception that leaves the "async with" block with the permit kept
raise_without_release(a) ==
    /\ tasks[a].pc = "try_urls"
    /\ tasks' = [tasks EXCEPT ![a].pc = "done",
                              ![a].result = Raised,
                              ![a].completed =
                                  1 + Cardinality({b \in DOMAIN tasks :
                                         tasks[b].completed > 0})]
    /\ UNCHANGED <<semaphore, results>>

\* an exception inside the "async with" block (generate_app_urls on a row
\* whose app_name is not a string, or try_urls outside its own handlers):
\* the block's exit releases the permit and the task completes with the
\* exception
raise_in_process_app(a) ==
    /\ tasks[a].pc = "try_urls"
    /\ tasks' = [tasks EXCEPT ![a].pc = "done",
                              ![a].result = Raised,
                              ![a].completed =
                                  1 + Cardinality({b \in DOMAIN tasks :
                                         tasks[b].completed > 0})]
    /\ semaphore' = semaphore + 1
    /\ UNCHANGED results

\* one iteration of "for task in as_completed(tasks)": the earliest completed
\* task not yet taken; building the row raises KeyError when the result has
\* no 'page_found', and "await task" re-raises the exception of a task
\* that raised; the except clause goes on to the next task
collect(a) ==
    /\ tasks[a].pc = "done"
    /\ \A b \in DOMAIN tasks :
          tasks[b].pc = "done" => tasks[a].completed <= tasks[b].completed
    /\ results' = IF /\ tasks[a].result # Raised
                     /\ "page_found" \in DOMAIN tasks[a].result
                  THEN Append(results, result_row(a, tasks[a].working_url,
                                                  tasks[a].result))
                  ELSE results
    /\ tasks' = [tasks EXCEPT ![a].pc = "collected"]
    /\ UNCHANGED semaphore

NextScrape ==
    \/ \E a \in DOMAIN tasks : acquire(a) /\ UNCHANGED <<normVars, relVars, rowVars, descVars, extVars, lateVars>>
    \/ \E a \in DOMAIN tasks : return_from_try_urls(a) /\ UNCHANGED <<normVars, relVars, rowVars, descVars, extVars, lateVars>>
    \/ \E a \in DOMAIN tasks : raise_in_process_app(a) /\ UNCHANGED <<normVars, relVars, rowVars, descVars, extVars, lateVars>>
    \/ \E a \in DOMAIN tasks : collect(a) /\ UNCHANGED <<normVars, relVars, rowVars, descVars, extVars, lateVars>>

SpecScrape == InitScrape /\ [][NextScrape]_vars

\* the event loop runs every coroutine that is ready, and every awaited
\* try_urls call returns
SpecScrapeFair == SpecScrape /\ WF_vars(NextScrape)

\* the rows of results that belong to app a
rows_of(a) == {i \in 1..Len(results) : results[i].app = a}

\* C20: once every task has been taken from as_completed, each input row has
\* exactly one result row, and a row whose fetch failed is there with an
\* empty integration list and scrape_success = False.
C20_OneRowPerApp ==
    (\A a \in DOMAIN tasks : tasks[a].pc = "collected")
        => \A a \in DOMAIN tasks :
              /\ Cardinality(rows_of(a)) = 1
              /\ ~tasks[a].result.success
                    => \A i \in rows_of(a) :
                          /\ results[i].integrations = <<>>
                          /\ results[i].scrape_success = FALSE


\* the tasks inside the "async with semaphore" block
holding == {a \in DOMAIN tasks : tasks[a].pc = "try_urls"}

\* C23: at every moment at most CONCURRENT_REQUESTS tasks are inside
\* try_urls holding the semaphore, the permits held and free always add up
\* to CONCURRENT_REQUESTS, and every task gets through: all tasks complete,
\* whatever they returned or raised, with every permit back
C23_BoundedConcurrencyAndRelease ==
    /\ [](tasks # <<>> =>
            /\ Cardinality(holding) <= CONCURRENT_REQUESTS
            /\ semaphore + Cardinality(holding) = CONCURRENT_REQUESTS)
    /\ <>[](tasks # <<>> =>
            /\ \A a \in DOMAIN tasks : tasks[a].pc = "collected"
            /\ semaphore = CONCURRENT_REQUESTS)

\* three tasks, two inside try_urls and one waiting for a permit after an
\* earlier holder raised
C23_Witness ==
    /\ Cardinality(holding) = CONCURRENT_REQUESTS
    /\ semaphore = 0
    /\ \E a \in DOMAIN tasks : tasks[a].pc = "pending"

-----------------------------------------------------------------------------
(* scrape_integrations.py: one call chain of try_urls, statement by
   statement *)

\* min(300, (2 ** retry_count) + random.uniform(0, retry_count * 2)) with
\* every delay at the cap
backoff_delay_at_cap(retry_count, j) == backoff_cap

\* delay = min(300, (2 ** retry_count) + random.uniform(0, retry_count * 2))
backoff_delay(retry_count, j) == Min(backoff_cap, 2 ^ retry_count + j)

\* a call that sleeps the delay without adding it to total_delay
add_delay_dropped(total_delay, delay) == total_delay

\* total_delay += delay
add_delay(total_delay, delay) == total_delay + delay

\* the list extract_integrations hands back for a 200 page
page_integrations(response) ==
    IF response = "valid page with integrations" THEN ScrapedIntegrations
    ELSE {<<>>}

\* the call try_urls(session, urls) of process_app: retry_count and
\* total_delay take their defaults; slept is the sum of the backoff delays
\* handed to asyncio.sleep, passes the number of times "for url in urls" was
\* started, response the last response seen
InitTry ==
    /\ try_call \in {[pc |-> "entry", urls |-> u, retry_count |-> 0,
                      total_delay |-> 0, url |-> 0, slept |-> 0,
                      passes |-> 0, response |-> "none",
                      working_url |-> 0, result |-> NoResult] :
                        u \in 0..MaxUrls}
    /\ InitRelIdle /\ InitNormIdle /\ InitRowIdle /\ InitDescIdle /\ InitExtIdle
    /\ InitScrIdle
    /\ InitFetchIdle /\ InitCollectIdle /\ InitBatchIdle
    /\ InitComplexityIdle /\ InitClusterIdle

return_tuple(working_url, result) ==
    [try_call EXCEPT !.pc = "returned", !.working_url = working_url,
                     !.result = result]

\* entry of a call: the empty-list test, then the backoff of a recursive
\* call, up to the start of the loop
enter ==
    /\ try_call.pc = "entry"
    /\ IF try_call.urls = 0
       THEN try_call' = return_tuple(0, failure_result("No URLs provided"))
       ELSE IF try_call.retry_count > 0
       THEN \E j \in jitter(try_call.retry_count) :
              LET delay == backoff_delay(try_call.retry_count, j)
                  total == add_delay(try_call.total_delay, delay)
              IN  IF total > total_delay_cap
                  THEN try_call' =
                         [return_tuple(0,
                            failure_result("Max retry time exceeded"))
                          EXCEPT !.total_delay = total]
                  ELSE try_call' =
                         [try_call EXCEPT !.pc = "for_url",
                                          !.total_delay = total,
                                          !.slept = @ + delay,
                                          !.url = 1,
                                          !.passes = @ + 1]
       ELSE try_call' = [try_call EXCEPT !.pc = "for_url", !.url = 1,
                                         !.passes = @ + 1]

\* one iteration of "for url in urls": the GET and what the body does with
\* its response
get ==
    /\ try_call.pc = "for_url"
    /\ try_call.url <= try_call.urls
    /\ \E response \in Responses :
         LET d == disposition(response, try_call.retry_count)
         IN  CASE d = "retry" ->
                    try_call' = [try_call EXCEPT !.pc = "entry",
                                                 !.retry_count = @ + 1,
                                                 !.response = response]
               [] d = "continue" ->
                    try_call' = [try_call EXCEPT !.url = @ + 1,
                                                 !.response = response]
               [] d = "return" ->
                    \E integrations \in page_integrations(response),
                       page_found \in BOOLEAN :
                      try_call' =
                        [return_tuple(try_call.url,
                           success_result(integrations, page_found))
                         EXCEPT !.response = response]

\* the loop ran out of URLs
fall_through ==
    /\ try_call.pc = "for_url"
    /\ try_call.url > try_call.urls
    /\ try_call' = return_tuple(0, failure_result("No valid URL found"))

tryOthers ==
    <<normVars, relVars, rowVars, descVars, extVars, scrVars,
      fetch, collecting, batch, complexity_run, clustering>>

NextTry ==
    \/ enter /\ UNCHANGED tryOthers
    \/ get /\ UNCHANGED tryOthers
    \/ fall_through /\ UNCHANGED tryOthers

SpecTry == InitTry /\ [][NextTry]_vars

\* every awaited GET and sleep of the call completes (the GET carries
\* timeout=REQUEST_TIMEOUT), so the call keeps taking steps until it returns
SpecTryFair == SpecTry /\ WF_vars(NextTry)

\* the step-by-step call returns only what try_urls is computed to return
try_call_agrees ==
    try_call.pc = "returned" =>
        <<try_call.working_url, try_call.result>>
            \in try_urls_returns[try_call.urls]


\* C22: the backoff delays one try_urls call chain sleeps are exactly the
\* delays accumulated in total_delay, their sum never exceeds 600 seconds,
\* and a delay that pushes the accumulated total above 600 is not slept: the
\* call returns a failure result instead
C22_SleptBackoffWithinBudget ==
    try_call.pc # "idle" =>
        /\ try_call.slept <= total_delay_cap
        /\ try_call.total_delay <= total_delay_cap
              => try_call.slept = try_call.total_delay
        /\ try_call.total_delay > total_delay_cap
              => /\ try_call.pc = "returned"
                 /\ ~try_call.result.success
                 /\ try_call.slept < try_call.total_delay

\* a call chain that slept all five backoffs at the largest jitter
C22_Witness ==
    /\ try_call.pc = "for_url"
    /\ try_call.retry_count = MAX_RETRIES
    /\ try_call.slept = 92

\* C26: every call try_urls(session, urls) returns a result tuple;
\* retry_count grows by exactly one on each recursive call and stays at most
\* MAX_RETRIES, and at most MAX_RETRIES + 1 passes over urls are made
C26_TryUrlsTerminates ==
    /\ [](try_call.pc # "idle" =>
            /\ try_call.retry_count <= MAX_RETRIES
            /\ try_call.passes <= MAX_RETRIES + 1)
    /\ [][try_call.pc # "idle" =>
            /\ try_call'.retry_count \in
                  {try_call.retry_count, try_call.retry_count + 1}
            /\ (try_call'.pc = "entry" /\ try_call.pc = "for_url")
                  <=> try_call'.retry_count = try_call.retry_count + 1]_vars
    /\ <>(try_call.pc \in {"idle", "returned"})
    /\ [](try_call.pc = "returned" =>
            /\ try_call.result.error # "pending"
            /\ [](try_call.pc = "returned"))

\* a call that returned after MAX_RETRIES + 1 passes over urls
C26_Witness ==
    /\ try_call.pc = "returned"
    /\ try_call.passes = MAX_RETRIES + 1
    /\ try_call.retry_count = MAX_RETRIES

\* C27: try_urls returns success = True only with a non-empty integrations
\* list and a working URL among the candidates; every other return is
\* (None, result) with success = False and integrations = []
C27_SuccessOnlyWithIntegrations ==
    try_call.pc = "returned" =>
        IF try_call.result.success
        THEN /\ try_call.result.integrations # <<>>
             /\ try_call.working_url \in 1..try_call.urls
             /\ try_call.response = "valid page with integrations"
        ELSE /\ try_call.working_url = 0
             /\ try_call.result.integrations = <<>>
             /\ try_call.response # "valid page with integrations"

\* a call whose last URL was a valid page without integrations and which
\* returned the failure tuple
C27_Witness ==
    /\ try_call.pc = "returned"
    /\ try_call.response = "valid page without integrations"
    /\ ~try_call.result.success
    /\ try_call.working_url = 0

\* C29: with MAX_RETRIES = 5 the accumulated total_delay of a call chain
\* stays below 600 and 'Max retry time exceeded' is never returned: a failed
\* call ran out of URLs or was given none
C29_DelayGuardNeverFires ==
    try_call.pc # "idle" =>
        /\ try_call.total_delay < total_delay_cap
        /\ try_call.pc = "returned" /\ ~try_call.result.success
              => try_call.result.error \in
                    {"No valid URL found", "No URLs provided"}

\* a call that failed after the last retry with every jitter at its maximum
C29_Witness ==
    /\ try_call.pc = "returned"
    /\ ~try_call.result.success
    /\ try_call.retry_count = MAX_RETRIES
    /\ try_call.total_delay = 92

-----------------------------------------------------------------------------
(* scrape_sitemap.py: fetch_with_retry *)

\* the largest max_retries a call is made with (the default is 3)
MaxRetriesArg == 3

\* what one GET of fetch_with_retry can come back with: the statuses the
\* code tells apart, a 200 whose body is empty, a timeout, and any other
\* exception inside the try block (a failed read of the body included)
FetchResponses ==
    {"429", "404", "other status", "200", "200 empty body", "timeout",
     "exception"}

\* await response.text() of the response to the k-th GET
body(response, k) ==
    IF response = "200" THEN <<"body", k>> ELSE <<>>

\* a loop that repeats the same attempt after "continue"
same_attempt(attempt) == attempt

\* "continue" in "for attempt in range(max_retries)": the next attempt
next_attempt(attempt) == attempt + 1

\* one call fetch_with_retry(session, url, max_retries); responses is the
\* list of responses to the GETs issued so far, '' is the empty sequence
InitFetch ==
    /\ fetch \in {[pc |-> "loop", max_retries |-> n, attempt |-> 0,
                   responses |-> <<>>, returned |-> <<>>] :
                     n \in 0..MaxRetriesArg}
    /\ InitRelIdle /\ InitNormIdle /\ InitRowIdle /\ InitDescIdle /\ InitExtIdle
    /\ InitScrIdle
    /\ InitTryIdle /\ InitCollectIdle /\ InitBatchIdle
    /\ InitComplexityIdle /\ InitClusterIdle

\* one iteration of the loop: the GET and what the body does with its
\* response
fetch_attempt ==
    /\ fetch.pc = "loop"
    /\ fetch.attempt < fetch.max_retries
    /\ \E response \in FetchResponses :
         LET seen == Append(fetch.responses, response)
         IN  CASE response = "429" ->
                    fetch' = [fetch EXCEPT !.responses = seen,
                                           !.attempt = next_attempt(@)]
               [] response = "404" ->
                    fetch' = [fetch EXCEPT !.responses = seen,
                                           !.pc = "returned",
                                           !.returned = <<>>]
               [] response = "other status" ->
                    IF fetch.attempt < fetch.max_retries - 1
                    THEN fetch' = [fetch EXCEPT !.responses = seen,
                                                !.attempt = next_attempt(@)]
                    ELSE fetch' = [fetch EXCEPT !.responses = seen,
                                                !.pc = "returned",
                                                !.returned = <<>>]
               [] response \in {"200", "200 empty body"} ->
                    fetch' = [fetch EXCEPT !.responses = seen,
                                           !.pc = "returned",
                                           !.returned =
                                               body(response, Len(seen))]
               [] response \in {"timeout", "exception"} ->
                    fetch' = [fetch EXCEPT !.responses = seen,
                                           !.attempt = next_attempt(@)]

\* the loop is exhausted: return ''
fetch_exhausted ==
    /\ fetch.pc = "loop"
    /\ fetch.attempt >= fetch.max_retries
    /\ fetch' = [fetch EXCEPT !.pc = "returned", !.returned = <<>>]

fetchOthers ==
    <<normVars, relVars, rowVars, descVars, extVars, scrVars,
      try_call, collecting, batch, complexity_run, clustering>>

NextFetch ==
    \/ fetch_attempt /\ UNCHANGED fetchOthers
    \/ fetch_exhausted /\ UNCHANGED fetchOthers

SpecFetch == InitFetch /\ [][NextFetch]_vars

ok_responses == {"200", "200 empty body"}

\* C28: one call of fetch_with_retry issues at most max_retries GETs; every
\* response that did not end the call, a 429 included, consumed one attempt;
\* a 404 or a 200 is the last response of the call (no further attempt), the
\* call returning '' after a 404 and the body after a 200; and a call none of
\* whose GETs obtained a 200 returns ''
C28_FetchWithRetryBounded ==
    fetch.pc # "idle" =>
        /\ Len(fetch.responses) <= fetch.max_retries
        /\ fetch.pc = "loop" => fetch.attempt = Len(fetch.responses)
        /\ \A k \in 1..Len(fetch.responses) :
              fetch.responses[k] \in ok_responses \cup {"404"}
                 => /\ k = Len(fetch.responses)
                    /\ fetch.pc = "returned"
                    /\ fetch.returned = body(fetch.responses[k], k)
        /\ (fetch.pc = "returned"
              /\ \A k \in 1..Len(fetch.responses) :
                    fetch.responses[k] \notin ok_responses)
              => fetch.returned = <<>>

\* a call with max_retries = 3 that was rate limited twice and returned the
\* body of its third GET
C28_Witness ==
    /\ fetch.pc = "returned"
    /\ fetch.max_retries = 3
    /\ fetch.responses = <<"429", "429", "200">>
    /\ fetch.returned = <<"body", 3>>

-----------------------------------------------------------------------------
(* scrape_sitemap.py: collect_apps *)

\* the number of apps with integrations to collect; the module constant is
\* 1000, scaled down here so that the target is reached within MaxAppUrls
TARGET_APPS_WITH_INTEGRATIONS == 2

\* the largest number of URLs get_app_urls returns
MaxAppUrls == 3

AppUrls == {"/a", "/b", "/c"}

\* what extract_app_info(session, url) can return: None (page not fetched or
\* not parsed), or the app's dictionary with an empty or non-empty
\* 'integrations' string
AppInfos(url) ==
    {[none |-> TRUE]}
       \cup {[app_store_url |-> url, integrations |-> s] :
               s \in {"", "Klaviyo,Stripe"}}

\* a loop that never takes the "break"
target_never_reached(apps_with_integrations) == FALSE

\* if apps_with_integrations >= TARGET_APPS_WITH_INTEGRATIONS: break
target_reached(apps_with_integrations) ==
    apps_with_integrations >= TARGET_APPS_WITH_INTEGRATIONS

\* collect_apps after get_app_urls and random.shuffle: app_urls in any order,
\* repeated URLs included; pages counts the calls of extract_app_info
InitCollect ==
    /\ collecting \in
          {[pc |-> "loop", app_urls |-> urls, url |-> 1, all_apps |-> <<>>,
            apps_with_integrations |-> 0, seen_urls |-> {}, pages |-> 0] :
              urls \in UNION {[1..n -> AppUrls] : n \in 0..MaxAppUrls}}
    /\ InitRelIdle /\ InitNormIdle /\ InitRowIdle /\ InitDescIdle /\ InitExtIdle
    /\ InitScrIdle
    /\ InitTryIdle /\ InitFetchIdle /\ InitBatchIdle
    /\ InitComplexityIdle /\ InitClusterIdle

\* "if not app_urls: return []", the "break", or the end of the loop
collect_return ==
    /\ collecting.pc = "loop"
    /\ \/ collecting.url > Len(collecting.app_urls)
       \/ target_reached(collecting.apps_with_integrations)
    /\ collecting' = [collecting EXCEPT !.pc = "returned"]

\* an iteration for a URL already in seen_urls: continue
skip_seen ==
    /\ collecting.pc = "loop"
    /\ collecting.url <= Len(collecting.app_urls)
    /\ ~target_reached(collecting.apps_with_integrations)
    /\ collecting.app_urls[collecting.url] \in collecting.seen_urls
    /\ collecting' = [collecting EXCEPT !.url = @ + 1]

\* an iteration that fetches the app page
extract_app ==
    /\ collecting.pc = "loop"
    /\ collecting.url <= Len(collecting.app_urls)
    /\ ~target_reached(collecting.apps_with_integrations)
    /\ LET url == collecting.app_urls[collecting.url]
       IN  /\ url \notin collecting.seen_urls
           /\ \E app_info \in AppInfos(url) :
                IF "none" \in DOMAIN app_info
                THEN collecting' = [collecting EXCEPT !.url = @ + 1,
                                                      !.pages = @ + 1]
                ELSE IF app_info.integrations # ""
                THEN collecting' =
                       [collecting EXCEPT
                          !.url = @ + 1,
                          !.pages = @ + 1,
                          !.all_apps = Append(@, app_info),
                          !.apps_with_integrations = @ + 1,
                          !.seen_urls = @ \cup {url}]
                ELSE collecting' =
                       [collecting EXCEPT !.url = @ + 1,
                                          !.pages = @ + 1,
                                          !.seen_urls = @ \cup {url}]

collectOthers ==
    <<normVars, relVars, rowVars, descVars, extVars, scrVars,
      try_call, fetch, batch, complexity_run, clustering>>

NextCollect ==
    \/ collect_return /\ UNCHANGED collectOthers
    \/ skip_seen /\ UNCHANGED collectOthers
    \/ extract_app /\ UNCHANGED collectOthers

SpecCollect == InitCollect /\ [][NextCollect]_vars

\* C24: in collect_apps, after every loop iteration len(all_apps) ==
\* apps_with_integrations <= TARGET_APPS_WITH_INTEGRATIONS, every app in
\* all_apps has a non-empty integrations field, and once
\* apps_with_integrations has reached the target no further page is fetched
C24_CollectUntilTarget ==
    /\ [](collecting.pc # "idle" =>
            /\ Len(collecting.all_apps) = collecting.apps_with_integrations
            /\ collecting.apps_with_integrations
                  <= TARGET_APPS_WITH_INTEGRATIONS
            /\ \A k \in 1..Len(collecting.all_apps) :
                  collecting.all_apps[k].integrations # "")
    /\ [][(collecting.pc # "idle"
             /\ collecting.apps_with_integrations
                   >= TARGET_APPS_WITH_INTEGRATIONS)
            => collecting'.pages = collecting.pages]_vars

\* a run that reached the target with a URL still left in app_urls and
\* returned without fetching it
C24_Witness ==
    /\ collecting.pc = "returned"
    /\ collecting.apps_with_integrations = TARGET_APPS_WITH_INTEGRATIONS
    /\ collecting.url <= Len(collecting.app_urls)
    /\ collecting.app_urls[collecting.url] \notin collecting.seen_urls

-----------------------------------------------------------------------------
(* analyze_integrations.py: load_app_data, and process_integrations.py:
   process_integrations, as batch calls over a table with malformed rows *)

MaxRows == 3

\* what the field of a row can hold: a text, the empty text, NaN (an empty
\* CSV cell as pandas reads it) or a number
FieldKinds == {"text", "empty text", "NaN", "number"}

BatchCalls == {"load_app_data", "process_integrations"}

\* the inner extract_integrations of load_app_data on one app_details value:
\* details.lower() exists only for a str
load_app_data_row(field) ==
    IF field \in {"text", "empty text"} THEN "extracted"
    ELSE "AttributeError"

\* one iteration of the loop of process_integrations on one integrations
\* value: pd.isna(...) or not ....strip() skips; .strip() exists only for a
\* str
process_integrations_row(field) ==
    CASE field = "NaN" -> "skipped"
      [] field = "empty text" -> "skipped"
      [] field = "text" -> "processed"
      [] field = "number" -> "AttributeError"

\* one batch call over the rows of the table; done lists what was done with
\* each row reached so far
InitBatch ==
    /\ batch \in {[pc |-> "rows", call |-> f, rows |-> rows, idx |-> 1,
                   done |-> <<>>, raised |-> "None"] :
                     f \in BatchCalls,
                     rows \in UNION {[1..n -> FieldKinds] : n \in 1..MaxRows}}
    /\ InitRelIdle /\ InitNormIdle /\ InitRowIdle /\ InitDescIdle /\ InitExtIdle
    /\ InitScrIdle
    /\ InitTryIdle /\ InitFetchIdle /\ InitCollectIdle
    /\ InitComplexityIdle /\ InitClusterIdle

\* the next row of the table; an exception of the row is not handled inside
\* either loop (load_app_data logs and re-raises it) and ends the call
batch_row ==
    /\ batch.pc = "rows"
    /\ batch.idx <= Len(batch.rows)
    /\ LET out == IF batch.call = "load_app_data"
                  THEN load_app_data_row(batch.rows[batch.idx])
                  ELSE process_integrations_row(batch.rows[batch.idx])
       IN  IF out = "AttributeError"
           THEN batch' = [batch EXCEPT !.pc = "raised", !.raised = out]
           ELSE batch' = [batch EXCEPT !.idx = @ + 1,
                                       !.done = Append(@, out)]

\* every row was handled: the call returns the table
batch_return ==
    /\ batch.pc = "rows"
    /\ batch.idx > Len(batch.rows)
    /\ batch' = [batch EXCEPT !.pc = "returned"]

batchOthers ==
    <<normVars, relVars, rowVars, descVars, extVars, scrVars,
      try_call, fetch, collecting, complexity_run, clustering>>

NextBatch ==
    \/ batch_row /\ UNCHANGED batchOthers
    \/ batch_return /\ UNCHANGED batchOthers

SpecBatch == InitBatch /\ [][NextBatch]_vars

\* C21: a row with a missing or non-text field never aborts the batch: the
\* call does not raise because of it, and when the call is over every row of
\* the table has been handled
C21_MalformedRowNeverAborts ==
    batch.pc # "idle" =>
        /\ batch.raised = "None"
        /\ batch.pc # "rows" => Len(batch.done) = Len(batch.rows)

-----------------------------------------------------------------------------
(* analyze_integration_patterns.py: analyze_app_complexity *)

MaxCounts == 2
MaxCount == 9

\* a missing value of the integration_count column, kept apart from every
\* count
NaN == -1

\* the values of the integration_count column: the counts process_integrations
\* writes (0 for an app without integrations) and NaN
IntegrationCounts == 0..MaxCount \cup {NaN}

\* df['integration_count'].dropna()
dropna(counts) == SelectSeq(counts, LAMBDA count : count # NaN)

\* the if / elif chain on one count
bucket(count) ==
    IF count <= 2 THEN "simple"
    ELSE IF count <= 5 THEN "moderate"
    ELSE IF count <= 8 THEN "complex"
    ELSE "very_complex"

\* analyze_app_complexity(df) before its loop; column is the
\* integration_count column of df, counts what the loop iterates over
InitComplexity ==
    /\ complexity_run \in
          {[pc |-> "loop", column |-> column, counts |-> dropna(column),
            idx |-> 1,
            complexity |-> [simple |-> 0, moderate |-> 0, complex |-> 0,
                            very_complex |-> 0]] :
              column \in UNION {[1..n -> IntegrationCounts] :
                                  n \in 0..MaxCounts}}
    /\ InitRelIdle /\ InitNormIdle /\ InitRowIdle /\ InitDescIdle /\ InitExtIdle
    /\ InitScrIdle
    /\ InitTryIdle /\ InitFetchIdle /\ InitCollectIdle
    /\ InitBatchIdle /\ InitClusterIdle

\* one iteration of "for count in ...": complexity[bucket] += 1
count_app ==
    /\ complexity_run.pc = "loop"
    /\ complexity_run.idx <= Len(complexity_run.counts)
    /\ LET b == bucket(complexity_run.counts[complexity_run.idx])
       IN  complexity_run' =
             [complexity_run EXCEPT !.idx = @ + 1,
                                    !.complexity[b] = @ + 1]

\* return complexity
return_complexity ==
    /\ complexity_run.pc = "loop"
    /\ complexity_run.idx > Len(complexity_run.counts)
    /\ complexity_run' = [complexity_run EXCEPT !.pc = "returned"]

complexityOthers ==
    <<normVars, relVars, rowVars, descVars, extVars, scrVars,
      try_call, fetch, collecting, batch, clustering>>

NextComplexity ==
    \/ count_app /\ UNCHANGED complexityOthers
    \/ return_complexity /\ UNCHANGED complexityOthers

SpecComplexity == InitComplexity /\ [][NextComplexity]_vars

\* the number of apps of the column whose count lies in lo..hi
apps_between(lo, hi) ==
    Cardinality({k \in 1..Len(complexity_run.column) :
                   /\ complexity_run.column[k] # NaN
                   /\ complexity_run.column[k] >= lo
                   /\ complexity_run.column[k] <= hi})

\* C25: the returned counts are: 'simple' the apps with 1 or 2 integrations,
\* 'moderate' those with 3 to 5, 'complex' those with 6 to 8, 'very_complex'
\* those with 9 or more, and the four counts add up to the number of apps
\* with a non-null integration_count
C25_ComplexityBuckets ==
    complexity_run.pc = "returned" =>
        /\ complexity_run.complexity.simple = apps_between(1, 2)
        /\ complexity_run.complexity.moderate = apps_between(3, 5)
        /\ complexity_run.complexity.complex = apps_between(6, 8)
        /\ complexity_run.complexity.very_complex
              = apps_between(9, MaxCount + 1)
        /\ complexity_run.complexity.simple
              + complexity_run.complexity.moderate
              + complexity_run.complexity.complex
              + complexity_run.complexity.very_complex
              = Len(dropna(complexity_run.column))

-----------------------------------------------------------------------------
(* analyze_integration_patterns.py: advanced_integration_clustering *)

MaxIntegrations == 4

\* the integration names of the input list
Shop_Pay == <<"S", "h", "o", "p", " ", "P", "a", "y">>
shop_pay == <<"s", "h", "o", "p", "_", "p", "a", "y">>
Shop_Pal == <<"S", "h", "o", "p", " ", "P", "a", "l">>
Xero == <<"X", "e", "r", "o">>
Oxer == <<"O", "x", "e", "r">>

ClusterNames == {Shop_Pay, shop_pay, Shop_Pal, Xero, Oxer}

\* the number of matching characters difflib.SequenceMatcher finds between
\* two names (the sum of the sizes of get_matching_blocks()), as difflib
\* computes it for <<x, word>> after set_seq2(word), set_seq1(x)
matching_characters ==
    <<Shop_Pay, Shop_Pay>> :> 8 @@ <<Shop_Pay, shop_pay>> :> 5 @@ <<Shop_Pay, Shop_Pal>> :> 7 @@
    <<Shop_Pay, Xero>> :> 1 @@ <<Shop_Pay, Oxer>> :> 0 @@ <<shop_pay, Shop_Pay>> :> 5 @@
    <<shop_pay, shop_pay>> :> 8 @@ <<shop_pay, Shop_Pal>> :> 4 @@ <<shop_pay, Xero>> :> 1 @@
    <<shop_pay, Oxer>> :> 0 @@ <<Shop_Pal, Shop_Pay>> :> 7 @@ <<Shop_Pal, shop_pay>> :> 4 @@
    <<Shop_Pal, Shop_Pal>> :> 8 @@ <<Shop_Pal, Xero>> :> 1 @@ <<Shop_Pal, Oxer>> :> 0 @@
    <<Xero, Shop_Pay>> :> 1 @@ <<Xero, shop_pay>> :> 1 @@ <<Xero, Shop_Pal>> :> 1 @@
    <<Xero, Xero>> :> 4 @@ <<Xero, Oxer>> :> 2 @@ <<Oxer, Shop_Pay>> :> 0 @@
    <<Oxer, shop_pay>> :> 0 @@ <<Oxer, Shop_Pal>> :> 0 @@ <<Oxer, Xero>> :> 2 @@
    <<Oxer, Oxer>> :> 4

\* SequenceMatcher.ratio() as the fraction <<2 * M, T>>
ratio(x, word) == <<2 * matching_characters[<<x, word>>], Len(x) + Len(word)>>

\* ratio >= cutoff for cutoff = 0.3
at_least_cutoff(r) == r[1] * 10 >= 3 * r[2]

\* (score, x) tuples compared as heapq.nlargest compares them
pair_greater(r, x, s, y) ==
    \/ r[1] * s[2] > s[1] * r[2]
    \/ r[1] * s[2] = s[1] * r[2] /\ StrLT(y, x)

\* the entries of result from the largest (score, x) down
RECURSIVE nlargest(_, _)
nlargest(word, possibilities) ==
    IF possibilities = <<>> THEN <<>>
    ELSE LET best == CHOOSE i \in 1..Len(possibilities) :
                        \A j \in 1..Len(possibilities) :
                           ~pair_greater(ratio(possibilities[j], word),
                                         possibilities[j],
                                         ratio(possibilities[i], word),
                                         possibilities[i])
             rest == [k \in 1..(Len(possibilities) - 1) |->
                        IF k < best THEN possibilities[k]
                        ELSE possibilities[k + 1]]
         IN  <<possibilities[best]>> \o nlargest(word, rest)

\* difflib.get_close_matches(word, possibilities, n=len(possibilities),
\* cutoff=0.3)
get_close_matches(word, possibilities) ==
    nlargest(word,
             SelectSeq(possibilities,
                       LAMBDA x : at_least_cutoff(ratio(x, word))))

\* ''.join(c[0] for c in zip(common_pattern, m) if c[0] == c[1])
zip_common(common_pattern, m) ==
    LET n == Min(Len(common_pattern), Len(m))
        keep == {i \in 1..n : common_pattern[i] = m[i]}
        RECURSIVE take(_)
        take(i) == IF i > n THEN <<>>
                   ELSE IF i \in keep THEN <<common_pattern[i]>> \o take(i + 1)
                   ELSE take(i + 1)
    IN  take(1)

\* the loop "for m in common_substr[1:]" from the k-th match on
RECURSIVE fold_pattern(_, _, _)
fold_pattern(common_pattern, common_substr, k) ==
    IF k > Len(common_substr) THEN common_pattern
    ELSE fold_pattern(zip_common(common_pattern, common_substr[k]),
                      common_substr, k + 1)

\* common_pattern.strip().replace(' ', '_').lower() for the members of one
\* cluster
cluster_name(members) ==
    LET common_substr == get_close_matches(members[1], members)
    IN  Lower(Replace(Strip(fold_pattern(common_substr[1], common_substr, 2)),
                      <<" ">>, <<"_">>))

Digits == <<"0", "1", "2", "3", "4", "5", "6", "7", "8", "9">>

\* f"cluster_{label}"
cluster_id(label) ==
    <<"c", "l", "u", "s", "t", "e", "r", "_">> \o <<Digits[label + 1]>>

services == <<"_", "s", "e", "r", "v", "i", "c", "e", "s">>

\* the labels >= 0 in the order in which zip(integrations, labels_) first
\* meets them: the keys of clusters in insertion order
RECURSIVE labels_in_order(_, _, _)
labels_in_order(labels, i, seen) ==
    IF i > Len(labels) THEN <<>>
    ELSE IF labels[i] >= 0 /\ labels[i] \notin seen
    THEN <<labels[i]>> \o labels_in_order(labels, i + 1, seen \cup {labels[i]})
    ELSE labels_in_order(labels, i + 1, seen)

\* clusters[f"cluster_{label}"]
cluster_members(integrations, labels, label) ==
    LET idx == {i \in 1..Len(integrations) : labels[i] = label}
        RECURSIVE take(_)
        take(i) == IF i > Len(integrations) THEN <<>>
                   ELSE IF i \in idx THEN <<integrations[i]>> \o take(i + 1)
                   ELSE take(i + 1)
    IN  take(1)

\* d[key] = value on a dict kept as its list of (key, value) items
dict_set(d, key, value) ==
    IF \E i \in 1..Len(d) : d[i][1] = key
    THEN [i \in 1..Len(d) |-> IF d[i][1] = key THEN <<key, value>> ELSE d[i]]
    ELSE Append(d, <<key, value>>)

\* the loop "for cluster_id, members in clusters.items()" from the k-th
\* cluster on
RECURSIVE name_clusters(_, _, _, _, _)
name_clusters(integrations, labels, order_of_labels, k, named_clusters) ==
    IF k > Len(order_of_labels) THEN named_clusters
    ELSE LET label == order_of_labels[k]
             members == cluster_members(integrations, labels, label)
             name_of == cluster_name(members)
             key == IF name_of # <<>> THEN name_of \o services
                    ELSE cluster_id(label)
         IN  name_clusters(integrations, labels, order_of_labels, k + 1,
                           dict_set(named_clusters, key, members))

\* advanced_integration_clustering(integrations), given the labels DBSCAN
\* assigned: the items of named_clusters
advanced_integration_clustering(integrations, labels) ==
    name_clusters(integrations, labels, labels_in_order(labels, 1, {}), 1,
                  <<>>)

\* the label vectors DBSCAN(eps=0.3, min_samples=2) can assign to a list of
\* n names: -1 for noise, clusters numbered from 0 in the order of their
\* first member, every cluster with at least min_samples members, and equal
\* names (distance 0) labelled alike
dbscan_labels(integrations) ==
    {labels \in [1..Len(integrations) -> -1..(Len(integrations) \div 2 - 1)] :
        /\ \A i \in 1..Len(integrations) :
              labels[i] >= 0
                 => Cardinality({j \in 1..Len(integrations) :
                                   labels[j] = labels[i]}) >= 2
        /\ \A i \in 1..Len(integrations) :
              labels[i] > 0
                 => \E j \in 1..(i - 1) : labels[j] \in {labels[i] - 1, labels[i]}
        /\ \A i, j \in 1..Len(integrations) :
              integrations[i] = integrations[j] => labels[i] = labels[j]}

\* the call before the naming: the input list and the labels found for it
InitCluster ==
    /\ clustering \in
          UNION {{[pc |-> "labelled", integrations |-> integrations,
                   labels |-> labels, named_clusters |-> <<>>] :
                     labels \in dbscan_labels(integrations)} :
                   integrations \in UNION {[1..n -> ClusterNames] :
                                             n \in 2..MaxIntegrations}}
    /\ InitRelIdle /\ InitNormIdle /\ InitRowIdle /\ InitDescIdle /\ InitExtIdle
    /\ InitScrIdle
    /\ InitTryIdle /\ InitFetchIdle /\ InitCollectIdle
    /\ InitBatchIdle /\ InitComplexityIdle

\* grouping by label, naming, and return named_clusters
call_advanced_integration_clustering ==
    /\ clustering.pc = "labelled"
    /\ clustering' =
          [clustering EXCEPT
             !.pc = "returned",
             !.named_clusters =
                 advanced_integration_clustering(clustering.integrations,
                                                 clustering.labels)]

clusterOthers ==
    <<normVars, relVars, rowVars, descVars, extVars, scrVars,
      try_call, fetch, collecting, batch, complexity_run>>

NextCluster ==
    call_advanced_integration_clustering /\ UNCHANGED clusterOthers

SpecCluster == InitCluster /\ [][NextCluster]_vars

\* the clusters DBSCAN found
clusters_found == {l \in 0..MaxIntegrations :
                     \E i \in 1..Len(clustering.labels) :
                        clustering.labels[i] = l}

\* C30: the returned mapping preserves the clusters found: every name with a
\* label >= 0 is a member of a returned cluster, no two clusters are stored
\* under one name, and the mapping has as many entries as clusters were found
C30_ClustersPreserved ==
    clustering.pc = "returned" =>
        /\ \A i \in 1..Len(clustering.labels) :
              clustering.labels[i] >= 0
                 => \E k \in 1..Len(clustering.named_clusters) :
                       \E j \in 1..Len(clustering.named_clusters[k][2]) :
                          clustering.named_clusters[k][2][j]
                             = clustering.integrations[i]
        /\ Len(clustering.named_clusters) = Cardinality(clusters_found)

=============================================================================
